---- MODULE Spec2Model ----
(***************************************************************************)
(* Price reconciliation and vendor attribution of the POS purchase         *)
(* analysis (src/app2.py, with the older variant src/app.py where the two  *)
(* differ).  Tables are sequences of records (row order is the DataFrame   *)
(* row order), money is an integer number of cents, and a value produced   *)
(* by a division (the apportioned winning value) is an exact fraction      *)
(* [num, den].                                                             *)
(***************************************************************************)
EXTENDS Integers, Sequences, FiniteSets, TLC

(***************************************************************************)
(* Bounds of the input tables.                                             *)
(***************************************************************************)
MaxLines == 2
MaxEntries == 2
MaxLinks == 2
MaxPrice == 2
MaxUnits == 1
MaxVendorRows == 2
MaxProductRows == 2

(***************************************************************************)
(* Generic table helpers (pandas operations used by the code).             *)
(***************************************************************************)
Null == -1
NaNZone == "NaN"

RECURSIVE Flatten(_)
Flatten(ss) == IF ss = << >> THEN << >> ELSE Head(ss) \o Flatten(Tail(ss))

RECURSIVE SumSeq(_)
SumSeq(s) == IF s = << >> THEN 0 ELSE Head(s) + SumSeq(Tail(s))

MapIdx(s, F(_)) == [i \in 1..Len(s) |-> F(s[i])]

SetMin(S) == CHOOSE m \in S : \A x \in S : m <= x

Range(s) == {s[i] : i \in 1..Len(s)}

\* Series.unique(): the distinct values in order of first appearance
RECURSIVE UniqueSeq(_)
UniqueSeq(s) ==
    IF s = << >> THEN << >>
    ELSE LET rest == UniqueSeq(SelectSeq(Tail(s), LAMBDA x : x # Head(s)))
         IN  <<Head(s)>> \o rest

\* pandas' column names of a merge: an overlapping non-key column gets a suffix
MergeCols(L, R, on, sl, sr) ==
    {IF c \in R \ on THEN c \o sl ELSE c : c \in L} \cup
    {IF c \in L \ on THEN c \o sr ELSE c : c \in R}

(***************************************************************************)
(* Labels of the classification.                                           *)
(***************************************************************************)
NoLabel == ""
DrogMin == "Precio droguería minimo"
VendorMin == "Precio vendor minimo"
VendorNoMin == "Precio vendor no minimo"
Labels == {DrogMin, VendorMin, VendorNoMin}

(***************************************************************************)
(* agregar_columna_clasificacion: the label of every row of df.  groupby   *)
(* forms one group per (order_id, super_catalog_id); a row keeps the       *)
(* initial label unless its group is visited.                              *)
(***************************************************************************)
GroupOf(df, i) ==
    {k \in 1..Len(df) : /\ df[k].order_id = df[i].order_id
                        /\ df[k].super_catalog_id = df[i].super_catalog_id}

ClasificacionSinMinimo(df, i) ==
    LET group == GroupOf(df, i)
        precio_minimo == df[SetMin(group)].precio_minimo
        precio_vendedor == df[i].precio_vendedor
    IN  IF precio_minimo < precio_vendedor THEN DrogMin ELSE VendorMin

ClasificacionPorGrupo(df, i) ==
    LET group == GroupOf(df, i)
        precio_minimo == df[SetMin(group)].precio_minimo
        min_precio_vendedor == SetMin({df[k].precio_vendedor : k \in group})
    IN  IF precio_minimo < min_precio_vendedor THEN DrogMin
        ELSE IF df[i].precio_vendedor = min_precio_vendedor THEN VendorMin
        ELSE VendorNoMin

ClasificacionDe(df, i) ==
    LET group == GroupOf(df, i)
        precio_minimo == df[SetMin(group)].precio_minimo
        min_precio_vendedor == SetMin({df[k].precio_vendedor : k \in group})
        precio_vendedor == df[i].precio_vendedor
    IN  IF precio_minimo < precio_vendedor THEN DrogMin
        ELSE IF precio_vendedor = min_precio_vendedor THEN VendorMin
        ELSE VendorNoMin

agregar_columna_clasificacion(df) ==
    [i \in 1..Len(df) |->
        ("clasificacion" :> ClasificacionDe(df, i)) @@ df[i]]

(***************************************************************************)
(* A DataFrame: its column names and its rows.  pd.DataFrame() has neither.*)
(***************************************************************************)
DF(cols, rows) == [cols |-> cols, rows |-> rows]
EmptyDF == DF({}, << >>)
IsEmpty(df) == df.rows = << >> \/ df.cols = {}

RECURSIVE SortSet(_)
SortSet(S) == IF S = {} THEN << >>
              ELSE LET m == SetMin(S) IN <<m>> \o SortSet(S \ {m})

(***************************************************************************)
(* obtener_geo_zone: address.split(', ')[-2:-1], the second-to-last        *)
(* comma-delimited segment (empty when there are fewer than two).  An      *)
(* address is held as the sequence of its segments.                        *)
(***************************************************************************)
obtener_geo_zone(address) ==
    IF Len(address) >= 2 THEN address[Len(address) - 1] ELSE ""

\* the abbreviations the inputs of the model use, out of the fixed lookup table
abreviaturas ==
    [a \in {"Jal.", "Pue.", "Qro.", "N.L."} |->
        CASE a = "Jal." -> "Jalisco"
          [] a = "Pue." -> "Puebla"
          [] a = "Qro." -> "Querétaro"
          [] a = "N.L." -> "Nuevo León"]

ReplaceAbrev(z) == IF z \in DOMAIN abreviaturas THEN abreviaturas[z] ELSE z

Nacional == "México"

(***************************************************************************)
(* pd.merge on rows: a row is a record whose fields are the columns.       *)
(***************************************************************************)
LeftName(c, R, on, sl) == IF c \in R \ on THEN c \o sl ELSE c

\* the merged row of a left row l and a right row r
MergeRow(l, r, on, sl, sr) ==
    LET L == DOMAIN l
        R == DOMAIN r
        fromLeft(n) == {c \in L : LeftName(c, R, on, sl) = n}
        fromRight(n) == {c \in R : LeftName(c, L, on, sr) = n}
    IN  [n \in MergeCols(L, R, on, sl, sr) |->
            IF fromLeft(n) # {} THEN l[CHOOSE c \in fromLeft(n) : TRUE]
            ELSE r[CHOOSE c \in fromRight(n) : TRUE]]

NullOf(c) == IF c = "geo_zone" THEN NaNZone ELSE Null

\* the row of a left join for a left row without a match
UnmatchedRow(l, rcols, on, sl, sr) ==
    MergeRow(l, [c \in rcols |-> IF c \in on THEN l[c] ELSE NullOf(c)],
             on, sl, sr)

\* how='inner': left rows in order, each with its matches in right order
InnerMerge(left, right, Match(_, _), on, sl, sr) ==
    Flatten(MapIdx(left, LAMBDA l :
        MapIdx(SelectSeq(right, LAMBDA r : Match(l, r)),
               LAMBDA r : MergeRow(l, r, on, sl, sr))))

\* how='left'
LeftMerge(left, right, rcols, Match(_, _), on, sl, sr) ==
    Flatten(MapIdx(left, LAMBDA l :
        LET m == SelectSeq(right, LAMBDA r : Match(l, r))
        IN  IF m = << >> THEN <<UnmatchedRow(l, rcols, on, sl, sr)>>
            ELSE MapIdx(m, LAMBDA r : MergeRow(l, r, on, sl, sr))))

\* drop_duplicates(subset, keep='first')
DropDuplicates(rows, subset) ==
    LET key(r) == [c \in subset |-> r[c]]
        first(i) == \A k \in 1..(i - 1) : key(rows[k]) # key(rows[i])
        keep == SortSet({i \in 1..Len(rows) : first(i)})
    IN  MapIdx(keep, LAMBDA i : rows[i])

\* rename(columns = m) on a row, m a function from old to new names
RenameRow(r, m) ==
    LET new(c) == IF c \in DOMAIN m THEN m[c] ELSE c
    IN  [n \in {new(c) : c \in DOMAIN r} |->
            r[CHOOSE c \in DOMAIN r : new(c) = n]]

RenameCols(cols, m) == {IF c \in DOMAIN m THEN m[c] ELSE c : c \in cols}

(***************************************************************************)
(* load_and_process_data (app2.py), stage by stage.                        *)
(***************************************************************************)
PosGeoZones(pos_address) ==
    MapIdx(pos_address, LAMBDA r :
        [point_of_sale_id |-> r.point_of_sale_id,
         geo_zone |-> ReplaceAbrev(obtener_geo_zone(r.address))])

PosGeoCols == {"point_of_sale_id", "geo_zone"}

\* pd.merge(df_pedidos, pos_geo_zones, on='point_of_sale_id', how='left')
\* followed by the unidades_pedidas > 0 filter
PedidosZonas(pedidos, pos_geo_zones) ==
    SelectSeq(LeftMerge(pedidos, pos_geo_zones, PosGeoCols,
                        LAMBDA l, g : g.point_of_sale_id = l.point_of_sale_id,
                        {"point_of_sale_id"}, "_x", "_y"),
              LAMBDA r : r.unidades_pedidas > 0)

FillPercentageSinRelleno(proveedores) == proveedores

\* df_proveedores['percentage'].fillna(0)
FillPercentage(proveedores) ==
    MapIdx(proveedores, LAMBDA e :
        [e EXCEPT !.percentage = IF @ = Null THEN 0 ELSE @])

\* base_price + base_price * percentage / 100 (prices are whole hundreds of
\* cents, so the division is exact)
PrecioVendedor(base_price, percentage) ==
    base_price + (base_price * percentage) \div 100

AddPrecioVendedor(rows) ==
    MapIdx(rows, LAMBDA r :
        ("precio_vendedor" :> PrecioVendedor(r.base_price, r.percentage)) @@ r)

\* pd.merge(df_pedidos_zonas, df_proveedores_nacional, on='super_catalog_id')
PedidosProveedoresNacional(zonas, proveedores) ==
    LET nacional == SelectSeq(proveedores, LAMBDA e : e.name = Nacional)
        merged == InnerMerge(zonas, nacional,
                      LAMBDA l, e : e.super_catalog_id = l.super_catalog_id,
                      {"super_catalog_id"}, "_x", "_y")
    IN  AddPrecioVendedor(SelectSeq(merged, LAMBDA r : r.unidades_pedidas > 0))

\* pd.merge(..., left_on=['super_catalog_id','geo_zone'],
\*               right_on=['super_catalog_id','name'])
PedidosProveedoresRegional(zonas, proveedores) ==
    LET regional == SelectSeq(proveedores, LAMBDA e : e.name # Nacional)
        merged == InnerMerge(zonas, regional,
                      LAMBDA l, e : /\ e.super_catalog_id = l.super_catalog_id
                                    /\ e.name = l.geo_zone,
                      {"super_catalog_id"}, "_x", "_y")
    IN  AddPrecioVendedor(SelectSeq(merged, LAMBDA r : r.unidades_pedidas > 0))

PedidosProveedoresNacionalPrimero(zonas, proveedores) ==
    PedidosProveedoresNacional(zonas, proveedores) \o
    PedidosProveedoresRegional(zonas, proveedores)

\* pd.concat([regional, nacional])
PedidosProveedores(zonas, proveedores) ==
    PedidosProveedoresRegional(zonas, proveedores) \o
    PedidosProveedoresNacional(zonas, proveedores)

ZonasCols(orders_cols) == (orders_cols \ {"geo_zone"}) \cup {"geo_zone"}
ResolvedCols(orders_cols, catalog_cols) ==
    MergeCols(ZonasCols(orders_cols), catalog_cols,
              {"super_catalog_id"}, "_x", "_y") \cup {"precio_vendedor"}

AddPrecioTotal(rows) ==
    MapIdx(rows, LAMBDA r :
        ("precio_total_vendedor" :> r.unidades_pedidas * r.precio_vendedor) @@ r)

\* pd.merge(df_pedidos_proveedores, df_vendors_pos,
\*          on=['point_of_sale_id','vendor_id'], how='left')
JoinVendorsPos(rows, relations, relations_cols) ==
    LeftMerge(rows, relations, relations_cols,
              LAMBDA r, v : /\ v.point_of_sale_id = r.point_of_sale_id
                            /\ v.vendor_id = r.vendor_id,
              {"point_of_sale_id", "vendor_id"}, "_x", "_y")

\* rename(columns={'vendor_id':'drug_manufacturer_id','vendor_id_y':'vendor_id'})
VendorRename ==
    ("vendor_id" :> "drug_manufacturer_id") @@ ("vendor_id_y" :> "vendor_id")

\* the resolved order-catalog table df_pedidos_proveedores of app2.py
ResolvedApp2(f) ==
    LET zonas == PedidosZonas(f.orders, PosGeoZones(f.pos_address))
        cols0 == ResolvedCols(f.orders_cols, f.catalog_cols)
        rows0 == PedidosProveedores(zonas, FillPercentage(f.catalog))
        withTotal == {"precio_vendedor", "unidades_pedidas"} \subseteq cols0
        cols1 == IF withTotal THEN cols0 \cup {"precio_total_vendedor"} ELSE cols0
        rows1 == IF withTotal THEN AddPrecioTotal(rows0) ELSE rows0
        joins == {"vendor_id", "point_of_sale_id"} \subseteq cols1
        cols2 == IF joins
                 THEN MergeCols(cols1, f.relations_cols,
                                {"point_of_sale_id", "vendor_id"}, "_x", "_y")
                 ELSE cols1
        rows2 == IF joins
                 THEN JoinVendorsPos(rows1, f.relations, f.relations_cols)
                 ELSE rows1
    IN  DF(RenameCols(cols2, VendorRename),
           MapIdx(rows2, LAMBDA r : RenameRow(r, VendorRename)))

\* min_prices and its merge: precio_minimo_orders of every row
AddPrecioMinimoOrders(rows) ==
    MapIdx(rows, LAMBDA r :
        ("precio_minimo_orders" :>
            SetMin({q.precio_minimo : q \in
                {q \in Range(rows) :
                    /\ q.point_of_sale_id = r.point_of_sale_id
                    /\ q.order_id = r.order_id
                    /\ q.super_catalog_id = r.super_catalog_id}})) @@ r)

ClasificadoApp2(resolved) ==
    IF {"point_of_sale_id", "super_catalog_id", "precio_minimo"}
           \subseteq resolved.cols
    THEN DF(resolved.cols \cup {"precio_minimo_orders", "clasificacion"},
            agregar_columna_clasificacion(AddPrecioMinimoOrders(resolved.rows)))
    ELSE EmptyDF

\* total_compra of an order line: the column of the file, computed from
\* units and paid price when the file has none
TotalCompra(l) ==
    IF "total_compra" \in DOMAIN l THEN l.total_compra
    ELSE l.unidades_pedidas * l.precio_minimo

\* df_orders has total_compra: it is in the file, or lines 820-821 add it
HasTotalCompra(orders_cols) ==
    \/ "total_compra" \in orders_cols
    \/ {"unidades_pedidas", "precio_minimo"} \subseteq orders_cols

\* df_orders.groupby(['point_of_sale_id','vendor_id'])['total_compra'].sum()
PosVendorTotals(pedidos) ==
    LET keys == {<<l.point_of_sale_id, l.vendor_id>> : l \in Range(pedidos)}
        code(k) == k[1] * 1000 + k[2]
        sorted == SortSet({code(k) : k \in keys})
    IN  MapIdx(sorted, LAMBDA c :
            [point_of_sale_id |-> c \div 1000,
             vendor_id |-> c % 1000,
             total_compra |-> SumSeq(MapIdx(
                 SelectSeq(pedidos, LAMBDA l :
                     /\ l.point_of_sale_id = c \div 1000
                     /\ l.vendor_id = c % 1000),
                 TotalCompra))])

\* calcular_potencial_convertido: the order lines whose vendor_id is a
\* vendor_id of the manufacturer links, inner-merged with that one column
\* (a line once per link row that carries its vendor_id), then total_compra
\* summed per (point_of_sale_id, vendor_id); pd.DataFrame() otherwise
calcular_potencial_convertido(df_pedidos, df_vendor_dm_arg) ==
    IF IsEmpty(df_pedidos) \/ IsEmpty(df_vendor_dm_arg) THEN EmptyDF
    ELSE IF "vendor_id" \notin df_pedidos.cols
            \/ "vendor_id" \notin df_vendor_dm_arg.cols THEN EmptyDF
    ELSE LET solo_vendor == MapIdx(df_vendor_dm_arg.rows,
                                   LAMBDA r : [vendor_id |-> r.vendor_id])
             df_pedidos_dm ==
                 InnerMerge(df_pedidos.rows, solo_vendor,
                            LAMBDA l, r : l.vendor_id = r.vendor_id,
                            {"vendor_id"}, "_x", "_y")
         IN  IF df_pedidos_dm = << >> THEN EmptyDF
             ELSE IF "point_of_sale_id" \in df_pedidos.cols
                     /\ HasTotalCompra(df_pedidos.cols)
             THEN DF({"point_of_sale_id", "vendor_id", "valor_convertido"},
                     MapIdx(PosVendorTotals(df_pedidos_dm), LAMBDA t :
                         [point_of_sale_id |-> t.point_of_sale_id,
                          vendor_id |-> t.vendor_id,
                          valor_convertido |-> t.total_compra]))
             ELSE EmptyDF

\* order_totals and pos_order_stats: per POS the sum of the order totals and
\* the number of orders (promedio_por_orden = suma / numero_ordenes)
PosOrderStats(pedidos) ==
    LET poss == SortSet({l.point_of_sale_id : l \in Range(pedidos)})
    IN  MapIdx(poss, LAMBDA p :
            [point_of_sale_id |-> p,
             suma |-> SumSeq(MapIdx(
                 SelectSeq(pedidos, LAMBDA l : l.point_of_sale_id = p),
                 TotalCompra)),
             numero_ordenes |-> Cardinality(
                 {l.order_id : l \in {q \in Range(pedidos) :
                                         q.point_of_sale_id = p}})])

\* load_vendors_dm: the table of vendors_dm.csv with client_id renamed to
\* vendor_id, or an empty table with the expected columns when reading fails
load_vendors_dm(file) ==
    IF ~file.exists
    THEN DF({"vendor_id", "name", "drug_manufacturer_id"}, << >>)
    ELSE IF "client_id" \in file.cols /\ "vendor_id" \notin file.cols
    THEN DF(RenameCols(file.cols, "client_id" :> "vendor_id"),
            MapIdx(file.rows, LAMBDA r : RenameRow(r, "client_id" :> "vendor_id")))
    ELSE DF(file.cols, file.rows)

\* the main script's own read of vendors_dm.csv: pd.DataFrame() when it fails
ReloadVendorsDm(file) ==
    IF ~file.exists THEN EmptyDF ELSE load_vendors_dm(file)

MinPurchaseCols == {"vendor_id", "name", "min_purchase"}

\* minimum_purchase.csv, or an empty table with its columns when it is absent
LoadMinPurchase(file) ==
    IF file.exists THEN DF(MinPurchaseCols, file.rows)
    ELSE DF(MinPurchaseCols, << >>)

\* the tuple load_and_process_data returns (app2.py), with the function's
\* local resolved table df_pedidos_proveedores and the relation table
\* df_vendors_pos it has read kept beside it
LoadApp2(f) ==
    LET resolved == ResolvedApp2(f)
        has_total == /\ {"point_of_sale_id", "vendor_id"} \subseteq f.orders_cols
                     /\ HasTotalCompra(f.orders_cols)
        has_stats == /\ {"point_of_sale_id", "order_id"} \subseteq f.orders_cols
                     /\ HasTotalCompra(f.orders_cols)
    IN  [pos_vendor_totals |->
             IF has_total
             THEN DF({"point_of_sale_id", "vendor_id", "total_compra"},
                     PosVendorTotals(f.orders))
             ELSE DF({"point_of_sale_id", "vendor_id", "total_compra"}, << >>),
         df_original |-> DF(f.orders_cols, f.orders),
         pos_order_stats |->
             IF has_stats THEN PosOrderStats(f.orders) ELSE << >>,
         df_min_purchase |-> LoadMinPurchase(f.min_purchase),
         df_vendor_dm |-> load_vendors_dm(f.vendors_dm),
         pos_geo_zones |-> PosGeoZones(f.pos_address),
         df_clasificado |-> ClasificadoApp2(resolved),
         df_pedidos_proveedores |-> resolved,
         df_vendors_pos |-> DF(f.relations_cols, f.relations)]

\* the steps of the try block that raise on the tables read: a column that a
\* step indexes, merges on or groups by is missing (KeyError)
LoadRaises(f) ==
    \/ ~({"point_of_sale_id", "unidades_pedidas", "super_catalog_id"}
            \subseteq f.orders_cols)
    \/ ~({"percentage", "name", "super_catalog_id", "base_price"}
            \subseteq f.catalog_cols)
    \/ LET cols == ResolvedCols(f.orders_cols, f.catalog_cols)
       IN  \/ /\ {"vendor_id", "point_of_sale_id"} \subseteq cols
              /\ ~({"vendor_id", "point_of_sale_id"} \subseteq f.relations_cols)
           \/ /\ {"point_of_sale_id", "super_catalog_id", "precio_minimo"}
                     \subseteq cols
              /\ "order_id" \notin cols

\* the tuple of the except branch: empty_df in every position
EmptyResult ==
    [pos_vendor_totals |-> EmptyDF, df_original |-> EmptyDF,
     pos_order_stats |-> << >>, df_min_purchase |-> EmptyDF,
     df_vendor_dm |-> EmptyDF, pos_geo_zones |-> << >>,
     df_clasificado |-> EmptyDF, df_pedidos_proveedores |-> EmptyDF,
     df_vendors_pos |-> EmptyDF]

load_and_process_data_parcial(f) ==
    IF LoadRaises(f)
    THEN [EmptyResult EXCEPT !.df_original = DF(f.orders_cols, f.orders)]
    ELSE LoadApp2(f)

\* load_and_process_data (app2.py): the try block, or the except branch when
\* a step of it raises
load_and_process_data(f) ==
    IF LoadRaises(f) THEN EmptyResult ELSE LoadApp2(f)

(***************************************************************************)
(* get_status_description and obtener_status_vendor.                       *)
(***************************************************************************)
get_status_description(status) ==
    IF status = Null THEN "Sin Status"
    ELSE CASE status = 0 -> "Rechazado"
           [] status = 1 -> "Activo"
           [] status = 2 -> "Pendiente"
           [] OTHER -> "Status " \o ToString(status)

obtener_status_vendor_activo(vendor_id, pos_id, df_vendors_pos) ==
    IF {"vendor_id", "point_of_sale_id", "status"} \subseteq df_vendors_pos.cols
    THEN LET relacion == SelectSeq(df_vendors_pos.rows, LAMBDA r :
                             /\ r.vendor_id = vendor_id
                             /\ r.point_of_sale_id = pos_id)
         IN  IF relacion # << >> THEN relacion[1].status ELSE 1
    ELSE 1

\* the status of the first relation row of the pair, np.nan without one
obtener_status_vendor(vendor_id, pos_id, df_vendors_pos) ==
    IF {"vendor_id", "point_of_sale_id", "status"} \subseteq df_vendors_pos.cols
    THEN LET relacion == SelectSeq(df_vendors_pos.rows, LAMBDA r :
                             /\ r.vendor_id = vendor_id
                             /\ r.point_of_sale_id = pos_id)
         IN  IF relacion # << >> THEN relacion[1].status ELSE Null
    ELSE Null

(***************************************************************************)
(* The per-POS part of the main script (app2.py).                          *)
(***************************************************************************)
\* sorted(list(set(pos_vendor_totals['point_of_sale_id'])))
PosList(pos_vendor_totals) ==
    IF IsEmpty(pos_vendor_totals) THEN << >>
    ELSE SortSet({r.point_of_sale_id : r \in Range(pos_vendor_totals.rows)})

\* sort_values(col, ascending=False): rows by descending value, equal values
\* in their original order
RECURSIVE SortDesc(_, _)
SortDesc(rows, col) ==
    IF rows = << >> THEN << >>
    ELSE LET i == CHOOSE i \in 1..Len(rows) :
                    /\ \A k \in 1..Len(rows) : rows[k][col] <= rows[i][col]
                    /\ \A k \in 1..(i - 1) : rows[k][col] < rows[i][col]
         IN  <<rows[i]>> \o
             SortDesc(SubSeq(rows, 1, i - 1) \o SubSeq(rows, i + 1, Len(rows)),
                      col)

DetailCols == {"POS ID", "Droguería/Vendor ID", "Total Comprado", "Porcentaje"}

\* detail_table: pos_data sorted by total_compra with its columns renamed;
\* Porcentaje is total_compra * 100 / sum, held as the pair of the quotient
DetailTable(pos_vendor_totals, selected) ==
    LET pos_data == SortDesc(SelectSeq(pos_vendor_totals.rows,
                                 LAMBDA r : r.point_of_sale_id = selected),
                             "total_compra")
        suma == SumSeq(MapIdx(pos_data, LAMBDA r : r.total_compra))
    IN  DF(DetailCols,
           MapIdx(pos_data, LAMBDA r :
               ("POS ID" :> r.point_of_sale_id) @@
               ("Droguería/Vendor ID" :> r.vendor_id) @@
               ("Total Comprado" :> r.total_compra) @@
               ("Porcentaje" :> <<r.total_compra * 100, suma>>)))

FilterPos(df, selected) ==
    DF(df.cols, SelectSeq(df.rows, LAMBDA r : r.point_of_sale_id = selected))

\* productos_pos = df_clasificado[...] if 'point_of_sale_id' in its columns
ProductosPos(df_clasificado, selected) ==
    IF "point_of_sale_id" \in df_clasificado.cols
    THEN FilterPos(df_clasificado, selected)
    ELSE EmptyDF

\* df_vendor_winners = productos_pos[df_clasificado['clasificacion'] ==
\*                                   'Precio droguería minimo']
VendorWinners(productos_pos) ==
    DF(productos_pos.cols,
       SelectSeq(productos_pos.rows, LAMBDA r : r.clasificacion = DrogMin))

\* crear_dataframe_vendors_dm raises KeyError on a missing column
CrearDmRaises(detail_table, df_vendor_dm) ==
    /\ ~IsEmpty(detail_table)
    /\ ~IsEmpty(df_vendor_dm)
    /\ \/ "drug_manufacturer_id" \notin df_vendor_dm.cols
       \/ "vendor_id" \notin df_vendor_dm.cols

crear_dataframe_vendors_dm(detail_table, df_vendor_dm) ==
    IF IsEmpty(detail_table) \/ IsEmpty(df_vendor_dm) THEN EmptyDF
    ELSE LET dm_ids == {r.drug_manufacturer_id : r \in Range(df_vendor_dm.rows)}
             detail == SelectSeq(detail_table.rows,
                           LAMBDA r : r["Droguería/Vendor ID"] \in dm_ids)
             real(r) == SelectSeq(df_vendor_dm.rows, LAMBDA m :
                           m.drug_manufacturer_id = r["Droguería/Vendor ID"])[1]
                           .vendor_id
         IN  IF detail = << >> THEN DF(detail_table.cols, << >>)
             ELSE DF(detail_table.cols \cup {"Vendor Real ID"},
                     MapIdx(detail, LAMBDA r :
                         ("Vendor Real ID" :> real(r)) @@ r))

(***************************************************************************)
(* The DM attribution block of the main script.  A value that the code     *)
(* obtains by a division is the exact fraction <<num, den>>, den > 0.      *)
(***************************************************************************)
\* Series.sum(): NaN is skipped
ColSum(rows, c) ==
    SumSeq(MapIdx(rows, LAMBDA r : IF r[c] = Null THEN 0 ELSE r[c]))

Abs(x) == IF x < 0 THEN -x ELSE x

MergeKeysDm == {"super_catalog_id", "point_of_sale_id"}

\* dm_compras: the orders of the POS placed with the vendors of
\* dm_vendors_detail
DmCompras(orders_pos, dm_vendors_detail) ==
    LET dm_detail_ids ==
            {r["Droguería/Vendor ID"] : r \in Range(dm_vendors_detail.rows)}
    IN  DF(orders_pos.cols,
           SelectSeq(orders_pos.rows, LAMBDA r : r.vendor_id \in dm_detail_ids))

\* dm_compras_ganadores: pd.merge(dm_compras, productos_ganadores_pos,
\* on=['super_catalog_id','point_of_sale_id'], suffixes=('_comp','_gan'))
\* .drop_duplicates('super_catalog_id')
DmComprasGanadores(dm_compras, productos_ganadores_pos) ==
    DF(MergeCols(dm_compras.cols, productos_ganadores_pos.cols,
                 MergeKeysDm, "_comp", "_gan"),
       DropDuplicates(
           InnerMerge(dm_compras.rows, productos_ganadores_pos.rows,
               LAMBDA l, r : /\ l.super_catalog_id = r.super_catalog_id
                             /\ l.point_of_sale_id = r.point_of_sale_id,
               MergeKeysDm, "_comp", "_gan"),
           {"super_catalog_id"}))

\* valor_dm_compras_ganadores (app2.py): the first column that exists decides
ValorDmComprasGanadores(ganadores) ==
    IF IsEmpty(ganadores) THEN 0
    ELSE IF "valor_total_vendedor" \in ganadores.cols
    THEN ColSum(ganadores.rows, "valor_total_vendedor")
    ELSE IF {"unidades_pedidas", "precio_minimo"} \subseteq ganadores.cols
    THEN SumSeq(MapIdx(ganadores.rows,
                       LAMBDA r : r.unidades_pedidas * r.precio_minimo))
    ELSE IF "valor_vendedor_gan" \in ganadores.cols
    THEN ColSum(ganadores.rows, "valor_vendedor_gan")
    ELSE 0

\* vendor_valores[dm_id]
VendorValor(ganadores, dm_id) ==
    LET propias == IF IsEmpty(ganadores) THEN << >>
                   ELSE SelectSeq(ganadores.rows,
                                  LAMBDA r : r.vendor_id_comp = dm_id)
    IN  IF propias = << >> THEN 0
        ELSE IF "valor_total_vendedor" \in ganadores.cols
        THEN ColSum(propias, "valor_total_vendedor")
        ELSE IF "valor_vendedor_gan" \in ganadores.cols
        THEN ColSum(propias, "valor_vendedor_gan")
        ELSE IF "valor_vendedor_comp" \in ganadores.cols
        THEN ColSum(propias, "valor_vendedor_comp")
        ELSE 0

\* sum(vendor_valores.values()): one entry per distinct dm_id
SumVendorValores(ganadores, detail_rows) ==
    LET ids == UniqueSeq(MapIdx(detail_rows,
                                LAMBDA r : r["Droguería/Vendor ID"]))
    IN  SumSeq(MapIdx(ids, LAMBDA d : VendorValor(ganadores, d)))

\* abs(sum_vendor_valores - valor_dm_compras_ganadores)
\*     < 0.01 * valor_dm_compras_ganadores
WithinTolerance(sum_vendor_valores, valor_dm) ==
    100 * Abs(sum_vendor_valores - valor_dm) < valor_dm

ValorComprasGanadoresSinFactor(vendor_valor, sum_vendor_valores, valor_dm, n) ==
    IF sum_vendor_valores > 0 THEN <<vendor_valor, 1>> ELSE <<valor_dm, n>>

ValorComprasGanadoresPartesIguales(vendor_valor, sum_vendor_valores, valor_dm, n) ==
    IF WithinTolerance(sum_vendor_valores, valor_dm) THEN <<vendor_valor, 1>>
    ELSE <<valor_dm, n>>

\* 'Valor Compras Ganadores' of one vendor
ValorComprasGanadores(vendor_valor, sum_vendor_valores, valor_dm, n) ==
    IF WithinTolerance(sum_vendor_valores, valor_dm) THEN <<vendor_valor, 1>>
    ELSE IF sum_vendor_valores > 0
    THEN <<vendor_valor * valor_dm, sum_vendor_valores>>
    ELSE <<valor_dm, n>>

\* the apportioning loop: both columns of every row of dm_vendors_detail
Apportion(detail, ganadores, valor_dm) ==
    LET s == SumVendorValores(ganadores, detail.rows)
        n == Len(detail.rows)
    IN  DF(detail.cols \cup {"Valor Compras Ganadores", "% Compras Ganadores"},
           MapIdx(detail.rows, LAMBDA r :
               LET v == ValorComprasGanadores(
                            VendorValor(ganadores, r["Droguería/Vendor ID"]),
                            s, valor_dm, n)
               IN  ("Valor Compras Ganadores" :> v) @@
                   ("% Compras Ganadores" :>
                       IF r["Total Comprado"] > 0
                       THEN <<v[1] * 100, v[2] * r["Total Comprado"]>>
                       ELSE <<0, 1>>) @@ r))

\* the rows of one apportioning share a denominator: the sum of the column
TotalCalculado(detail_rows) ==
    <<SumSeq(MapIdx(detail_rows, LAMBDA r : r["Valor Compras Ganadores"][1])),
      detail_rows[1]["Valor Compras Ganadores"][2]>>

\* abs(total_calculado - valor_dm) > 0.01 * valor_dm
Discrepancia(detail_rows, valor_dm) ==
    LET t == TotalCalculado(detail_rows)
    IN  100 * Abs(t[1] - valor_dm * t[2]) > valor_dm * t[2]

(***************************************************************************)
(* "Análisis de Productos": the intersection with the orders of the POS    *)
(* and its rows labelled 'Precio vendor minimo'.                           *)
(***************************************************************************)
MergeKeysInter == {"super_catalog_id", "point_of_sale_id", "order_id"}

Intersection(productos_pos, orders_pos) ==
    IF ~IsEmpty(productos_pos) /\ ~IsEmpty(orders_pos)
    THEN DF(MergeCols(productos_pos.cols, orders_pos.cols,
                      MergeKeysInter, "", "_ord"),
            InnerMerge(productos_pos.rows, orders_pos.rows,
                LAMBDA l, r : /\ l.super_catalog_id = r.super_catalog_id
                              /\ l.point_of_sale_id = r.point_of_sale_id
                              /\ l.order_id = r.order_id,
                MergeKeysInter, "", "_ord"))
    ELSE EmptyDF

\* intersection['super_catalog_id'] and ['clasificacion'] raise KeyError on
\* a table without these columns
IntersectionRaises(intersection) ==
    ~({"super_catalog_id", "clasificacion"} \subseteq intersection.cols)

WinnersSinRepetidos(intersection) ==
    DF(intersection.cols,
       DropDuplicates(
           SelectSeq(intersection.rows, LAMBDA r : r.clasificacion = VendorMin),
           {"super_catalog_id"}))

Winners(intersection) ==
    DF(intersection.cols,
       SelectSeq(intersection.rows, LAMBDA r : r.clasificacion = VendorMin))

(***************************************************************************)
(* actualizar_vendor_analysis.                                             *)
(***************************************************************************)
HasVendorCol(winners) == ~IsEmpty(winners) /\ "vendor_id" \in winners.cols

\* potenciales_por_vendor.get(vendor_id, 0)
PotencialDe(winners, vendor_id) ==
    IF HasVendorCol(winners) /\ "precio_total_vendedor" \in winners.cols
    THEN ColSum(SelectSeq(winners.rows, LAMBDA r : r.vendor_id = vendor_id),
                "precio_total_vendedor")
    ELSE 0

CompraMinima(df_min_purchase, vendor_id, geo_zone) ==
    IF ~IsEmpty(df_min_purchase)
       /\ {"name", "vendor_id"} \subseteq df_min_purchase.cols
    THEN LET info == SelectSeq(df_min_purchase.rows, LAMBDA r :
                         r.vendor_id = vendor_id /\ r.name = geo_zone)
         IN  IF info # << >> THEN info[1].min_purchase ELSE 0
    ELSE 0

Get(row, col, default) == IF col \in DOMAIN row THEN row[col] ELSE default

ValorPotencialSinRestar(potential_value, ganadores) == <<potential_value, 1>>

\* adjusted_potential = max(0, potential_value - valor_compras_ganadores)
\* when valor_compras_ganadores > 0, potential_value otherwise
ValorPotencial(potential_value, ganadores) ==
    IF ganadores[1] > 0
    THEN <<IF potential_value * ganadores[2] - ganadores[1] > 0
           THEN potential_value * ganadores[2] - ganadores[1] ELSE 0,
           ganadores[2]>>
    ELSE <<potential_value, 1>>

\* the row of a vendor that is a drug manufacturer (PARTE 1)
DmVendorRow(row, winners, df_vendors_pos, selected_pos, geo_zone, df_min_purchase) ==
    LET vendor_id == row["Vendor Real ID"]
        raw == PotencialDe(winners, vendor_id)
        ganadores == Get(row, "Valor Compras Ganadores", <<0, 1>>)
        convierte == ganadores[1] > 0
    IN  ("Vendor ID" :> vendor_id) @@
        ("Status" :> get_status_description(
             obtener_status_vendor(vendor_id, selected_pos, df_vendors_pos))) @@
        ("Valor Potencial Total" :> ValorPotencial(raw, ganadores)) @@
        ("Valor Convertido" :> IF convierte THEN ganadores ELSE <<0, 1>>) @@
        ("Compra Mínima" :> CompraMinima(df_min_purchase, vendor_id, geo_zone)) @@
        ("Es Drug Manufacturer" :> "Sí") @@
        ("Drug Manufacturer ID" :> Get(row, "Droguería/Vendor ID", Null)) @@
        ("Total Comprado Como DM" :> Get(row, "Total Comprado", 0))

RegularVendorRowCondicionada(vendor_id, winners, df_vendors_pos, selected_pos, geo_zone, df_min_purchase) ==
    ("Vendor ID" :> vendor_id) @@
    ("Status" :> get_status_description(
         obtener_status_vendor(vendor_id, selected_pos, df_vendors_pos))) @@
    ("Valor Potencial Total" :>
         IF CompraMinima(df_min_purchase, vendor_id, geo_zone)
                > PotencialDe(winners, vendor_id)
         THEN <<0, 1>> ELSE <<PotencialDe(winners, vendor_id), 1>>) @@
    ("Valor Convertido" :> <<0, 1>>) @@
    ("Compra Mínima" :> CompraMinima(df_min_purchase, vendor_id, geo_zone)) @@
    ("Es Drug Manufacturer" :> "No") @@
    ("Drug Manufacturer ID" :> Null) @@
    ("Total Comprado Como DM" :> 0)

\* the row of a regular vendor (PARTE 2)
RegularVendorRow(vendor_id, winners, df_vendors_pos, selected_pos, geo_zone, df_min_purchase) ==
    ("Vendor ID" :> vendor_id) @@
    ("Status" :> get_status_description(
         obtener_status_vendor(vendor_id, selected_pos, df_vendors_pos))) @@
    ("Valor Potencial Total" :> <<PotencialDe(winners, vendor_id), 1>>) @@
    ("Valor Convertido" :> <<0, 1>>) @@
    ("Compra Mínima" :> CompraMinima(df_min_purchase, vendor_id, geo_zone)) @@
    ("Es Drug Manufacturer" :> "No") @@
    ("Drug Manufacturer ID" :> Null) @@
    ("Total Comprado Como DM" :> 0)

VendorDfCols ==
    {"Vendor ID", "Status", "Valor Potencial Total", "Valor Convertido",
     "Compra Mínima", "Es Drug Manufacturer", "Drug Manufacturer ID",
     "Total Comprado Como DM"}

\* the rows of PARTE 1: one per row of dm_vendors_detail with a Vendor Real ID
DmVendorRows(dm_vendors_detail, winners, df_vendors_pos, selected_pos, geo_zone, df_min_purchase) ==
    IF ~IsEmpty(dm_vendors_detail) /\ "Vendor Real ID" \in dm_vendors_detail.cols
    THEN MapIdx(SelectSeq(dm_vendors_detail.rows,
                          LAMBDA r : r["Vendor Real ID"] # Null),
                LAMBDA r : DmVendorRow(r, winners, df_vendors_pos, selected_pos,
                                       geo_zone, df_min_purchase))
    ELSE << >>

\* the rows of PARTE 2: the vendors of the winners not yet processed
RegularVendorRows(processed_vendors, winners, df_vendors_pos, selected_pos, geo_zone, df_min_purchase) ==
    IF HasVendorCol(winners)
    THEN MapIdx(SelectSeq(UniqueSeq(MapIdx(winners.rows,
                                           LAMBDA r : r.vendor_id)),
                          LAMBDA v : v \notin processed_vendors),
                LAMBDA v : RegularVendorRow(v, winners, df_vendors_pos,
                                            selected_pos, geo_zone,
                                            df_min_purchase))
    ELSE << >>

actualizar_vendor_analysis_regulares_primero(df_vendors_pos, dm_vendors_detail, selected_pos, geo_zone, df_min_purchase, winners) ==
    LET parte1 == DmVendorRows(dm_vendors_detail, winners, df_vendors_pos,
                               selected_pos, geo_zone, df_min_purchase)
        parte2 == RegularVendorRows({r["Vendor ID"] : r \in Range(parte1)},
                                    winners, df_vendors_pos,
                                    selected_pos, geo_zone, df_min_purchase)
    IN  IF parte2 \o parte1 # << >> THEN DF(VendorDfCols, parte2 \o parte1)
        ELSE EmptyDF

actualizar_vendor_analysis(df_vendors_pos, dm_vendors_detail, selected_pos, geo_zone, df_min_purchase, winners) ==
    LET parte1 == DmVendorRows(dm_vendors_detail, winners, df_vendors_pos,
                               selected_pos, geo_zone, df_min_purchase)
        processed_vendors == {r["Vendor ID"] : r \in Range(parte1)}
        parte2 == RegularVendorRows(processed_vendors, winners, df_vendors_pos,
                                    selected_pos, geo_zone, df_min_purchase)
        vendor_analysis == parte1 \o parte2
    IN  IF vendor_analysis # << >> THEN DF(VendorDfCols, vendor_analysis)
        ELSE EmptyDF

\* geo_zone of the selected POS, 'No disponible' without a row for it
GeoZoneOf(pos_geo_zones, selected_pos) ==
    LET pos_info == SelectSeq(pos_geo_zones,
                              LAMBDA r : r.point_of_sale_id = selected_pos)
    IN  IF pos_info # << >> THEN pos_info[1].geo_zone ELSE "No disponible"

(***************************************************************************)
(* generar_insight_simple: the vendors whose potential exceeds the          *)
(* threshold, by potential descending.                                      *)
(***************************************************************************)
\* 20000 pesos, in cents
Umbral == 2000000

\* a > b for exact fractions <<num, den>>, den > 0
FracGt(a, b) == a[1] * b[2] > b[1] * a[2]

\* sort_values(col, ascending=False) on a column of fractions; rows of equal
\* value keep their relative order
RECURSIVE SortDescFrac(_, _)
SortDescFrac(rows, col) ==
    IF rows = << >> THEN << >>
    ELSE LET k == CHOOSE i \in 1..Len(rows) :
                      /\ \A j \in 1..Len(rows) : ~FracGt(rows[j][col], rows[i][col])
                      /\ \A j \in 1..(i - 1) : FracGt(rows[i][col], rows[j][col])
             rest == [j \in 1..(Len(rows) - 1) |->
                          IF j < k THEN rows[j] ELSE rows[j + 1]]
         IN  <<rows[k]>> \o SortDescFrac(rest, col)

InsightCols == {"POS ID", "Vendor ID", "Status", "Valor Potencial"}

generar_insight_simple(vendor_df, pos) ==
    IF IsEmpty(vendor_df) THEN EmptyDF
    ELSE LET oportunidades_alto_valor ==
                 SelectSeq(vendor_df.rows, LAMBDA r :
                     FracGt(r["Valor Potencial Total"], <<Umbral, 1>>))
         IN  IF oportunidades_alto_valor = << >> THEN EmptyDF
             ELSE DF(InsightCols,
                     SortDescFrac(MapIdx(oportunidades_alto_valor, LAMBDA r :
                         [n \in InsightCols |->
                             CASE n = "POS ID" -> pos
                               [] n = "Vendor ID" -> r["Vendor ID"]
                               [] n = "Status" -> r["Status"]
                               [] n = "Valor Potencial" -> r["Valor Potencial Total"]]),
                         "Valor Potencial"))

(***************************************************************************)
(* app.py: load_and_process_data and the DM attribution block of its main  *)
(* script.                                                                 *)
(***************************************************************************)
DedupKeys == {"super_catalog_id", "vendor_id_y", "geo_zone"}

ResolvedSinClaveVendor(f) ==
    LET zonas == PedidosZonas(f.orders, PosGeoZones(f.pos_address))
        unique == DropDuplicates(
                      PedidosProveedores(zonas, FillPercentage(f.catalog)),
                      {"super_catalog_id", "geo_zone"})
    IN  DF(RenameCols(ResolvedCols(f.orders_cols, f.catalog_cols)
                          \cup {"precio_total_vendedor"}, VendorRename),
           MapIdx(AddPrecioTotal(unique), LAMBDA r : RenameRow(r, VendorRename)))

\* the resolved order-catalog table df_pedidos_proveedores_unique of app.py:
\* the concatenation without its duplicates on DedupKeys
ResolvedApp(f) ==
    LET zonas == PedidosZonas(f.orders, PosGeoZones(f.pos_address))
        cols0 == ResolvedCols(f.orders_cols, f.catalog_cols)
        rows0 == DropDuplicates(
                     PedidosProveedores(zonas, FillPercentage(f.catalog)),
                     DedupKeys)
        withTotal == {"precio_vendedor", "unidades_pedidas"} \subseteq cols0
        cols1 == IF withTotal THEN cols0 \cup {"precio_total_vendedor"} ELSE cols0
        rows1 == IF withTotal THEN AddPrecioTotal(rows0) ELSE rows0
        joins == {"vendor_id", "point_of_sale_id"} \subseteq cols1
        cols2 == IF joins
                 THEN MergeCols(cols1, f.relations_cols,
                                {"point_of_sale_id", "vendor_id"}, "_x", "_y")
                 ELSE cols1
        rows2 == IF joins
                 THEN JoinVendorsPos(rows1, f.relations, f.relations_cols)
                 ELSE rows1
    IN  DF(RenameCols(cols2, VendorRename),
           MapIdx(rows2, LAMBDA r : RenameRow(r, VendorRename)))

\* min_prices of app.py: the minimum paid price per (POS, product)
AddPrecioMinimoOrdersApp(rows) ==
    MapIdx(rows, LAMBDA r :
        ("precio_minimo_orders" :>
            SetMin({q.precio_minimo : q \in
                {q \in Range(rows) :
                    /\ q.point_of_sale_id = r.point_of_sale_id
                    /\ q.super_catalog_id = r.super_catalog_id}})) @@ r)

\* df_productos_ganadores_local: precio_minimo_orders > precio_vendedor
ProductosGanadoresLocal(resolved) ==
    LET ganadores == SelectSeq(AddPrecioMinimoOrdersApp(resolved.rows),
                         LAMBDA r : r.precio_minimo_orders > r.precio_vendedor)
        conValor == "valor_total_vendedor" \notin resolved.cols
                    /\ "unidades_pedidas" \in resolved.cols
    IN  DF(resolved.cols \cup {"precio_minimo_orders"}
               \cup (IF conValor THEN {"valor_total_vendedor"} ELSE {}),
           IF conValor
           THEN MapIdx(ganadores, LAMBDA r :
                    ("valor_total_vendedor" :>
                         r.unidades_pedidas * r.precio_vendedor) @@ r)
           ELSE ganadores)

\* pd.concat: the union of the columns, NaN where a table lacks one
ConcatRows(cols, rows) ==
    MapIdx(rows, LAMBDA r :
        [c \in cols |-> IF c \in DOMAIN r THEN r[c] ELSE NullOf(c)])

WithOrigen(rows, origen) == MapIdx(rows, LAMBDA r : ("origen" :> origen) @@ r)

unificar_productos_global_primero(df_global, df_local) ==
    IF IsEmpty(df_global) /\ IsEmpty(df_local) THEN EmptyDF
    ELSE IF IsEmpty(df_global) THEN df_local
    ELSE IF IsEmpty(df_local) THEN df_global
    ELSE LET cols == df_local.cols \cup df_global.cols \cup {"origen"}
         IN  DF(cols, DropDuplicates(
                 ConcatRows(cols, WithOrigen(df_global.rows, "global") \o
                                  WithOrigen(df_local.rows, "local")),
                 {"point_of_sale_id", "super_catalog_id", "vendor_id"} \cap cols))

\* sort_values('origen', ascending=False) puts the rows of 'local' before
\* those of 'global'; the order within each of them is the order of the
\* concatenation
unificar_productos_sin_duplicados(df_global, df_local) ==
    IF IsEmpty(df_global) /\ IsEmpty(df_local) THEN EmptyDF
    ELSE IF IsEmpty(df_global) THEN df_local
    ELSE IF IsEmpty(df_local) THEN df_global
    ELSE LET cols == df_local.cols \cup df_global.cols \cup {"origen"}
             df_combinado ==
                 ConcatRows(cols, WithOrigen(df_local.rows, "local") \o
                                  WithOrigen(df_global.rows, "global"))
             subset_cols == {"point_of_sale_id", "super_catalog_id",
                             "vendor_id"} \cap cols
             sorted == SelectSeq(df_combinado, LAMBDA r : r.origen = "local")
                       \o SelectSeq(df_combinado, LAMBDA r : r.origen = "global")
         IN  IF subset_cols = {} THEN DF(cols, df_combinado)
             ELSE DF(cols, DropDuplicates(sorted, subset_cols))

LoadApp(f) ==
    LET resolved == ResolvedApp(f)
        has_total == /\ {"point_of_sale_id", "vendor_id"} \subseteq f.orders_cols
                     /\ HasTotalCompra(f.orders_cols)
        has_stats == /\ {"point_of_sale_id", "order_id"} \subseteq f.orders_cols
                     /\ HasTotalCompra(f.orders_cols)
    IN  [pos_vendor_totals |->
             IF has_total
             THEN DF({"point_of_sale_id", "vendor_id", "total_compra"},
                     PosVendorTotals(f.orders))
             ELSE DF({"point_of_sale_id", "vendor_id", "total_compra"}, << >>),
         df_original |-> DF(f.orders_cols, f.orders),
         pos_order_stats |->
             IF has_stats THEN PosOrderStats(f.orders) ELSE << >>,
         df_min_purchase |-> LoadMinPurchase(f.min_purchase),
         df_vendor_dm |-> load_vendors_dm(f.vendors_dm),
         pos_geo_zones |-> PosGeoZones(f.pos_address),
         df_productos_unificados |->
             unificar_productos_sin_duplicados(
                 f.products, ProductosGanadoresLocal(resolved)),
         df_pedidos_proveedores_unique |-> resolved]

\* the steps of app.py's try block that raise on the tables read: a missing
\* column (KeyError, among them vendor_id_y of the de-duplication), or
\* df_productos_ganadores_local left unassigned (NameError)
LoadRaisesApp(f) ==
    \/ ~({"point_of_sale_id", "unidades_pedidas", "super_catalog_id"}
            \subseteq f.orders_cols)
    \/ ~({"percentage", "name", "super_catalog_id", "base_price"}
            \subseteq f.catalog_cols)
    \/ LET cols == ResolvedCols(f.orders_cols, f.catalog_cols)
       IN  \/ ~(DedupKeys \subseteq cols)
           \/ /\ {"vendor_id", "point_of_sale_id"} \subseteq cols
              /\ ~({"vendor_id", "point_of_sale_id"} \subseteq f.relations_cols)
           \/ ~({"point_of_sale_id", "super_catalog_id", "precio_minimo"}
                   \subseteq cols)

\* the tuple of app.py's except branch
EmptyResultApp ==
    [pos_vendor_totals |-> EmptyDF, df_original |-> EmptyDF,
     pos_order_stats |-> << >>, df_min_purchase |-> EmptyDF,
     df_vendor_dm |-> EmptyDF, pos_geo_zones |-> << >>,
     df_productos_unificados |-> EmptyDF,
     df_pedidos_proveedores_unique |-> EmptyDF]

\* load_and_process_data (app.py)
load_and_process_data_app(f) ==
    IF LoadRaisesApp(f) THEN EmptyResultApp ELSE LoadApp(f)

\* valor_dm_compras_ganadores (app.py): the second test is an if, not an
\* elif, so a later column replaces the sum of valor_total_vendedor
ValorDmComprasGanadoresApp(ganadores) ==
    LET primero == IF "valor_total_vendedor" \in ganadores.cols
                   THEN ColSum(ganadores.rows, "valor_total_vendedor")
                   ELSE 0
    IN  IF IsEmpty(ganadores) THEN 0
        ELSE IF {"unidades_pedidas", "precio_minimo"} \subseteq ganadores.cols
        THEN SumSeq(MapIdx(ganadores.rows,
                           LAMBDA r : r.unidades_pedidas * r.precio_minimo))
        ELSE IF "valor_vendedor_gan" \in ganadores.cols
        THEN ColSum(ganadores.rows, "valor_vendedor_gan")
        ELSE primero

\* productos_pos['vendor_id'] and the merge raise KeyError inside the try
\* of the block
DmBlockRaisesApp(productos) ==
    ~({"vendor_id", "point_of_sale_id", "super_catalog_id"}
          \subseteq productos.cols)

(***************************************************************************)
(* The input files.  Identifiers and prices are drawn from small sets; a   *)
(* price is a whole number of hundreds of cents.                           *)
(***************************************************************************)
PosIds == {1, 2}
OrderIds == {1, 2}
OrderVendors == {10, 11}
CatalogVendors == {1, 2}
Products == {1}
Prices == {100 * k : k \in 1..MaxPrice}
Units == 0..MaxUnits
Percentages == {Null, 100}
Regions == {Nacional, "Jalisco"}
ValoresVendedor == {300}

SeqsUpTo(S, n) == UNION {[1..k -> S] : k \in 0..n}

OrdersBaseCols ==
    {"order_id", "point_of_sale_id", "vendor_id", "super_catalog_id",
     "unidades_pedidas", "precio_minimo"}

\* the lines of orders_delivered_pos_vendor_geozone.csv, without and with
\* the optional column valor_vendedor; an order belongs to one POS
OrderLinesBase ==
    {l \in [order_id : OrderIds, point_of_sale_id : PosIds,
            vendor_id : OrderVendors, super_catalog_id : Products,
            unidades_pedidas : Units, precio_minimo : Prices] :
        l.point_of_sale_id = l.order_id}

OrderLinesValor ==
    {l @@ ("valor_vendedor" :> v) : l \in OrderLinesBase, v \in ValoresVendedor}

CatalogCols ==
    {"vendor_id", "super_catalog_id", "name", "base_price", "percentage"}

CatalogEntries ==
    [vendor_id : CatalogVendors, super_catalog_id : Products, name : Regions,
     base_price : Prices, percentage : Percentages]

\* vendors_dm.csv: absent, or a table with or without drug_manufacturer_id
DmColsOk == {"vendor_id", "drug_manufacturer_id"}
DmColsNoDm == {"vendor_id", "name"}
DmLinks == [vendor_id : CatalogVendors, drug_manufacturer_id : OrderVendors]

VendorsDmFiles ==
    {[exists |-> FALSE, cols |-> {}, rows |-> << >>]} \cup
    {[exists |-> TRUE, cols |-> DmColsOk, rows |-> r] :
        r \in SeqsUpTo(DmLinks, MaxLinks)} \cup
    {[exists |-> TRUE, cols |-> DmColsNoDm,
      rows |-> <<[vendor_id |-> 1, name |-> "v1"]>>]}

RelationsCols == {"vendor_id", "point_of_sale_id", "status"}
RelationTables ==
    {<<[vendor_id |-> 1, point_of_sale_id |-> 1, status |-> 1],
       [vendor_id |-> 2, point_of_sale_id |-> 1, status |-> 2]>>}

\* vendor_pos_relations.csv as the status functions receive it: any rows,
\* a table without the status column, or pd.DataFrame() when reading failed
Statuses == {0, 1, 2, Null}
RelationRows ==
    [vendor_id : CatalogVendors, point_of_sale_id : PosIds, status : Statuses]
RelationFrames ==
    {DF(RelationsCols, r) : r \in SeqsUpTo(RelationRows, MaxLinks)} \cup
    {DF({"vendor_id", "point_of_sale_id"},
        <<[vendor_id |-> 1, point_of_sale_id |-> 1]>>),
     EmptyDF}

\* the vendor tables generar_insight_simple receives: potentials around the
\* threshold
Potenciales == {<<Umbral - 100, 1>>, <<Umbral, 1>>, <<Umbral + 100, 1>>}
VendorFrames ==
    {EmptyDF} \cup
    {DF(VendorDfCols, r) : r \in SeqsUpTo(
        {("Vendor ID" :> v) @@ ("Status" :> "Activo") @@
         ("Valor Potencial Total" :> q) @@ ("Valor Convertido" :> <<0, 1>>) @@
         ("Compra Mínima" :> 0) @@ ("Es Drug Manufacturer" :> "No") @@
         ("Drug Manufacturer ID" :> Null) @@ ("Total Comprado Como DM" :> 0) :
            v \in CatalogVendors, q \in Potenciales}, MaxVendorRows) \ {<< >>}}

MinPurchaseFiles ==
    {[exists |-> FALSE, rows |-> << >>]}

\* minimum_purchase.csv present: without rows, or with the minimum of one
\* vendor in one zone (500.00)
MinPurchases == {50000}
MinPurchaseRows ==
    [vendor_id : CatalogVendors, name : {"Jalisco", "Puebla"},
     min_purchase : MinPurchases]
MinPurchaseFilesPresent ==
    {[exists |-> TRUE, rows |-> << >>]} \cup
    {[exists |-> TRUE, rows |-> <<r>>] : r \in MinPurchaseRows}

PosAddressTables ==
    {<<[point_of_sale_id |-> 1,
        address |-> <<"Av. Uno 1", "Guadalajara", "Jal.", "México">>],
       [point_of_sale_id |-> 2,
        address |-> <<"Calle Dos 2", "Puebla", "Pue.", "México">>]>>}

MkFiles(o, c, d, r, m, a) ==
    [orders |-> o.rows, orders_cols |-> o.cols,
     catalog |-> c, catalog_cols |-> CatalogCols,
     vendors_dm |-> d,
     relations |-> r, relations_cols |-> RelationsCols,
     min_purchase |-> m,
     pos_address |-> a]

\* Input families: the catalog varies over every table against the orders of
\* one vendor at one POS, the orders and the manufacturer links vary over
\* every table against the catalogs of two national entries, an orders file
\* lacks a column the load needs, and minimum_purchase.csv is present.
PrecioPagado == 100 * MaxPrice
LinesNarrow ==
    {l \in OrderLinesValor :
        l.vendor_id = 10 /\ l.point_of_sale_id = 1 /\ l.precio_minimo = PrecioPagado}
LinesWide ==
    {l \in OrderLinesValor :
        l.unidades_pedidas = MaxUnits /\ l.precio_minimo = PrecioPagado}
LinesReruns == {l \in LinesNarrow : l.unidades_pedidas = MaxUnits}
EntriesNarrow ==
    {e \in CatalogEntries :
        /\ e.name = Nacional
        /\ e.base_price = PrecioPagado
        /\ e.percentage = (IF e.vendor_id = 1 THEN Null ELSE 100)}
LinksNarrow == {<<[vendor_id |-> 1, drug_manufacturer_id |-> 10]>>}

OrdersTables(lines, cols) == {DF(cols, x) : x \in SeqsUpTo(lines, MaxLines)}
ValorCols == OrdersBaseCols \cup {"valor_vendedor"}

\* orders_delivered_pos_vendor_geozone.csv without the column
\* unidades_pedidas: line 744 raises KeyError
SinUnidadesCols == ValorCols \ {"unidades_pedidas"}
OrdersSinUnidades ==
    {DF(SinUnidadesCols, <<[c \in SinUnidadesCols |-> l[c]]>>) : l \in LinesNarrow}

\* orders_delivered_pos_vendor_geozone.csv without the column precio_minimo,
\* without and with a total_compra column of its own
SinPrecioCols == OrdersBaseCols \ {"precio_minimo"}
ConTotalCols == SinPrecioCols \cup {"total_compra"}
OrdersSinPrecio ==
    {DF(cols, <<[c \in cols |->
                   IF c = "total_compra" THEN l.unidades_pedidas * l.precio_minimo
                   ELSE l[c]]>>) :
        l \in {q \in LinesNarrow : q.unidades_pedidas = MaxUnits},
        cols \in {SinPrecioCols, ConTotalCols}}

InputFiles ==
    {MkFiles(o, c, d, r, m, a) :
        o \in OrdersTables(LinesNarrow, ValorCols),
        c \in SeqsUpTo(CatalogEntries, MaxEntries),
        d \in {f \in VendorsDmFiles : f.rows \in LinksNarrow},
        r \in RelationTables, m \in MinPurchaseFiles, a \in PosAddressTables}
    \cup
    {MkFiles(o, c, d, r, m, a) :
        o \in OrdersTables(LinesWide, ValorCols),
        c \in SeqsUpTo(EntriesNarrow, MaxEntries),
        d \in VendorsDmFiles,
        r \in RelationTables, m \in MinPurchaseFiles, a \in PosAddressTables}
    \cup
    {MkFiles(o, c, d, r, m, a) :
        o \in OrdersTables({l \in OrderLinesBase : l.vendor_id = 10}, OrdersBaseCols),
        c \in SeqsUpTo(EntriesNarrow, MaxEntries),
        d \in {f \in VendorsDmFiles : f.rows \in LinksNarrow},
        r \in RelationTables, m \in MinPurchaseFiles, a \in PosAddressTables}
    \cup
    {MkFiles(o, c, d, r, m, a) :
        o \in OrdersSinUnidades \cup OrdersSinPrecio,
        c \in SeqsUpTo(EntriesNarrow, MaxEntries),
        d \in {f \in VendorsDmFiles : f.rows \in LinksNarrow},
        r \in RelationTables, m \in MinPurchaseFiles, a \in PosAddressTables}
    \cup
    {MkFiles(o, c, d, r, m, a) :
        o \in OrdersTables(LinesReruns, ValorCols),
        c \in SeqsUpTo(EntriesNarrow, MaxEntries),
        d \in {f \in VendorsDmFiles : f.cols = DmColsOk /\ Len(f.rows) = 1},
        r \in RelationTables, m \in MinPurchaseFilesPresent,
        a \in PosAddressTables}

\* top_5_productos_geozona.csv: the global products
ProductsCols ==
    {"point_of_sale_id", "super_catalog_id", "vendor_id", "valor_vendedor",
     "valor_total_vendedor"}
ValoresTotales == {0, 200, 500}
ProductsFiles ==
    {DF(ProductsCols, << >>)} \cup
    {DF(ProductsCols,
        <<[point_of_sale_id |-> 1, super_catalog_id |-> 1, vendor_id |-> 1,
           valor_vendedor |-> v, valor_total_vendedor |-> t]>>) :
        v \in ValoresVendedor, t \in ValoresTotales}

\* the inputs of app.py: a line without units comes from vendor 10 at POS 1,
\* and POS 2 buys from vendor 10
LinesApp ==
    {l \in OrderLinesValor :
        /\ l.precio_minimo = PrecioPagado
        /\ l.unidades_pedidas < MaxUnits
               => (l.point_of_sale_id = 1 /\ l.vendor_id = 10)
        /\ l.point_of_sale_id # 1 => l.vendor_id = 10}
EntriesApp == {e \in CatalogEntries : e.percentage = Null}
LinksApp ==
    {<<[vendor_id |-> 1, drug_manufacturer_id |-> 10]>>,
     <<[vendor_id |-> 1, drug_manufacturer_id |-> 10],
       [vendor_id |-> 2, drug_manufacturer_id |-> 11]>>}

InputFilesApp ==
    {("products" :> p) @@ MkFiles(o, c, d, r, m, a) :
        o \in OrdersTables(LinesApp, ValorCols),
        c \in SeqsUpTo(EntriesApp, MaxEntries),
        d \in {f \in VendorsDmFiles : f.rows \in LinksApp},
        r \in RelationTables, m \in MinPurchaseFiles, a \in PosAddressTables,
        p \in ProductsFiles}
    \cup
    {("products" :> p) @@ MkFiles(o, c, d, r, m, a) :
        o \in OrdersSinUnidades,
        c \in SeqsUpTo(EntriesNarrow, MaxEntries),
        d \in {f \in VendorsDmFiles : f.rows \in LinksApp},
        r \in RelationTables, m \in MinPurchaseFiles, a \in PosAddressTables,
        p \in ProductsFiles}

(***************************************************************************)
(* The state: the input files, the position of the script run, and the     *)
(* variables of the main script.                                           *)
(***************************************************************************)
VARIABLES files, pc, loaded, df_vendor_dm, df_vendors_pos, selected_pos,
          detail_table, orders_pos, productos_pos, df_vendor_winners,
          dm_bound, dm_vendors_detail, dm_compras_ganadores,
          valor_dm_compras_ganadores, winners, vendor_df, warnings, error,
          df_insight_simple, consulta, cache, prev

vars == <<files, pc, loaded, df_vendor_dm, df_vendors_pos, selected_pos,
          detail_table, orders_pos, productos_pos, df_vendor_winners,
          dm_bound, dm_vendors_detail, dm_compras_ganadores,
          valor_dm_compras_ganadores, winners, vendor_df, warnings, error,
          df_insight_simple, consulta, cache, prev>>

\* st.cache_data keeps one entry for load_and_process_data, which takes no
\* argument: nothing stored, or the stored tuple
NoCache == << >>

CacheLookupMutado(c, computed) ==
    IF c = NoCache THEN computed
    ELSE [c[1] EXCEPT !.df_original = DF(@.cols, @.rows \o @.rows)]

\* the tuple a call receives: the stored one while there is one (a copy of
\* it, equal in value), the computed one otherwise
CacheLookup(c, computed) ==
    IF c = NoCache THEN computed ELSE c[1]

\* the entry after the call: only a miss stores
CacheStore(c, computed) ==
    IF c = NoCache THEN <<computed>> ELSE c

\* no earlier run of the script, no status looked up
NoRun == << >>
NoConsulta == << >>

NotLoaded ==
    [pos_vendor_totals |-> EmptyDF, df_original |-> EmptyDF,
     pos_order_stats |-> << >>, df_min_purchase |-> EmptyDF,
     df_vendor_dm |-> EmptyDF, pos_geo_zones |-> << >>,
     df_clasificado |-> EmptyDF, df_pedidos_proveedores |-> EmptyDF,
     df_vendors_pos |-> EmptyDF]

InitScript ==
    /\ pc = "start"
    /\ loaded = NotLoaded
    /\ df_vendor_dm = EmptyDF
    /\ df_vendors_pos = EmptyDF
    /\ selected_pos = 0
    /\ detail_table = EmptyDF
    /\ orders_pos = EmptyDF
    /\ productos_pos = EmptyDF
    /\ df_vendor_winners = EmptyDF
    /\ dm_bound = FALSE
    /\ dm_vendors_detail = EmptyDF
    /\ dm_compras_ganadores = EmptyDF
    /\ valor_dm_compras_ganadores = 0
    /\ winners = EmptyDF
    /\ vendor_df = EmptyDF
    /\ warnings = {}
    /\ error = ""
    /\ df_insight_simple = EmptyDF
    /\ consulta = NoConsulta
    /\ cache = NoCache
    /\ prev = NoRun

Init ==
    /\ files \in InputFiles
    /\ InitScript

\* an exception that reaches the handler around the main script (st.error)
Raise(e) ==
    /\ pc' = "error"
    /\ error' = e

\* lines 848-849: the call of load_and_process_data through st.cache_data
LoadAndProcess ==
    /\ pc = "start"
    /\ loaded' = CacheLookup(cache, load_and_process_data(files))
    /\ cache' = CacheStore(cache, load_and_process_data(files))
    /\ pc' = "loaded"
    /\ UNCHANGED <<files, df_vendor_dm, df_vendors_pos, selected_pos,
                   detail_table, orders_pos, productos_pos, df_vendor_winners,
                   dm_bound, dm_vendors_detail, dm_compras_ganadores,
                   valor_dm_compras_ganadores, winners, vendor_df, warnings,
                   error>>
    /\ UNCHANGED <<df_insight_simple, consulta, prev>>

\* lines 851-867: the script reads vendors_dm.csv and vendor_pos_relations.csv
\* again
ReloadReference ==
    /\ pc = "loaded"
    /\ df_vendor_dm' = ReloadVendorsDm(files.vendors_dm)
    /\ df_vendors_pos' = DF(files.relations_cols, files.relations)
    /\ pc' = "select"
    /\ UNCHANGED <<files, loaded, selected_pos,
                   detail_table, orders_pos, productos_pos, df_vendor_winners,
                   dm_bound, dm_vendors_detail, dm_compras_ganadores,
                   valor_dm_compras_ganadores, winners, vendor_df, warnings,
                   error>>
    /\ UNCHANGED <<df_insight_simple, consulta, cache, prev>>

\* lines 869-934: the POS is selected and its tables are filtered
SelectPos ==
    /\ pc = "select"
    /\ LET pos_list == PosList(loaded.pos_vendor_totals)
       IN  IF pos_list = << >>
           THEN /\ warnings' = warnings \cup {"No hay puntos de venta disponibles para analizar"}
                /\ pc' = "done"
                /\ UNCHANGED <<selected_pos, detail_table, orders_pos,
                               productos_pos, df_vendor_winners, error>>
           ELSE \E p \in Range(pos_list) :
                /\ selected_pos' = p
                /\ detail_table' = DetailTable(loaded.pos_vendor_totals, p)
                /\ orders_pos' = FilterPos(loaded.df_original, p)
                /\ productos_pos' = ProductosPos(loaded.df_clasificado, p)
                /\ IF "clasificacion" \in loaded.df_clasificado.cols
                   THEN /\ df_vendor_winners' =
                               VendorWinners(ProductosPos(loaded.df_clasificado, p))
                        /\ pc' = "dm"
                        /\ UNCHANGED error
                   ELSE /\ Raise("KeyError: 'clasificacion'")
                        /\ UNCHANGED df_vendor_winners
                /\ UNCHANGED warnings
    /\ UNCHANGED <<files, loaded, df_vendor_dm, df_vendors_pos,
                   dm_bound, dm_vendors_detail, dm_compras_ganadores,
                   valor_dm_compras_ganadores, winners, vendor_df>>
    /\ UNCHANGED <<df_insight_simple, consulta, cache, prev>>

\* lines 936-1064: the attribution to the vendors that are manufacturers
DmAttribution ==
    /\ pc = "dm"
    /\ IF IsEmpty(df_vendor_dm)
       THEN /\ warnings' = warnings \cup {"No se pudo cargar el archivo vendors_dm.csv o está vacío."}
            /\ pc' = "products"
            /\ UNCHANGED <<dm_bound, dm_vendors_detail, dm_compras_ganadores,
                           valor_dm_compras_ganadores, error>>
       ELSE IF CrearDmRaises(detail_table, df_vendor_dm)
       THEN /\ Raise("KeyError: 'drug_manufacturer_id'")
            /\ UNCHANGED <<dm_bound, dm_vendors_detail, dm_compras_ganadores,
                           valor_dm_compras_ganadores, warnings>>
       ELSE LET detail == crear_dataframe_vendors_dm(detail_table, df_vendor_dm)
                ganadores == DmComprasGanadores(
                                 DmCompras(orders_pos, detail), df_vendor_winners)
                valor_dm == ValorDmComprasGanadores(ganadores)
                repartido == Apportion(detail, ganadores, valor_dm)
            IN  /\ dm_bound' = TRUE
                /\ pc' = "products"
                /\ UNCHANGED error
                /\ IF IsEmpty(detail)
                   THEN /\ dm_vendors_detail' = detail
                        /\ UNCHANGED <<dm_compras_ganadores,
                                       valor_dm_compras_ganadores, warnings>>
                   ELSE /\ dm_vendors_detail' = repartido
                        /\ dm_compras_ganadores' = ganadores
                        /\ valor_dm_compras_ganadores' = valor_dm
                        /\ warnings' =
                               IF Discrepancia(repartido.rows, valor_dm)
                               THEN warnings \cup {"Discrepancia en los cálculos"}
                               ELSE warnings
    /\ UNCHANGED <<files, loaded, df_vendor_dm, df_vendors_pos, selected_pos,
                   detail_table, orders_pos, productos_pos, df_vendor_winners,
                   winners, vendor_df>>
    /\ UNCHANGED <<df_insight_simple, consulta, cache, prev>>

\* lines 1066-1122: the intersection with the orders and its winners
ProductAnalysis ==
    /\ pc = "products"
    /\ LET intersection == Intersection(productos_pos, orders_pos)
       IN  IF IntersectionRaises(intersection)
           THEN /\ Raise("KeyError: 'super_catalog_id'")
                /\ UNCHANGED winners
           ELSE /\ winners' = Winners(intersection)
                /\ pc' = "vendors"
                /\ UNCHANGED error
    /\ UNCHANGED <<files, loaded, df_vendor_dm, df_vendors_pos, selected_pos,
                   detail_table, orders_pos, productos_pos, df_vendor_winners,
                   dm_bound, dm_vendors_detail, dm_compras_ganadores,
                   valor_dm_compras_ganadores, vendor_df, warnings>>
    /\ UNCHANGED <<df_insight_simple, consulta, cache, prev>>

\* lines 1124-1136: the call of actualizar_vendor_analysis; dm_vendors_detail
\* is an unbound name when the attribution block did not assign it
VendorAnalysis ==
    /\ pc = "vendors"
    /\ IF ~dm_bound
       THEN /\ Raise("NameError: name 'dm_vendors_detail' is not defined")
            /\ UNCHANGED vendor_df
       ELSE /\ vendor_df' = actualizar_vendor_analysis(
                    df_vendors_pos, dm_vendors_detail, selected_pos,
                    GeoZoneOf(loaded.pos_geo_zones, selected_pos),
                    loaded.df_min_purchase, winners)
            /\ pc' = "insight"
            /\ UNCHANGED error
    /\ UNCHANGED <<files, loaded, df_vendor_dm, df_vendors_pos, selected_pos,
                   detail_table, orders_pos, productos_pos, df_vendor_winners,
                   dm_bound, dm_vendors_detail, dm_compras_ganadores,
                   valor_dm_compras_ganadores, winners, warnings>>
    /\ UNCHANGED <<df_insight_simple, consulta, cache, prev>>

\* lines 1150-1152: the opportunities above the threshold
GenerarInsight ==
    /\ pc = "insight"
    /\ df_insight_simple' = generar_insight_simple(vendor_df, selected_pos)
    /\ pc' = "done"
    /\ UNCHANGED <<files, loaded, df_vendor_dm, df_vendors_pos, selected_pos,
                   detail_table, orders_pos, productos_pos, df_vendor_winners,
                   dm_bound, dm_vendors_detail, dm_compras_ganadores,
                   valor_dm_compras_ganadores, winners, vendor_df, warnings,
                   error, consulta, cache, prev>>

Next ==
    \/ LoadAndProcess
    \/ ReloadReference
    \/ SelectPos
    \/ DmAttribution
    \/ ProductAnalysis
    \/ VendorAnalysis
    \/ GenerarInsight

Spec == Init /\ [][Next]_vars

(***************************************************************************)
(* The main script of app.py up to the end of its DM attribution block.    *)
(***************************************************************************)
InitApp ==
    /\ files \in InputFilesApp
    /\ InitScript

\* app.py line 619: the call of load_and_process_data
LoadAndProcessApp ==
    /\ pc = "start"
    /\ loaded' = CacheLookup(cache, load_and_process_data_app(files))
    /\ cache' = CacheStore(cache, load_and_process_data_app(files))
    /\ pc' = "loaded"
    /\ UNCHANGED <<files, df_vendor_dm, df_vendors_pos, selected_pos,
                   detail_table, orders_pos, productos_pos, df_vendor_winners,
                   dm_bound, dm_vendors_detail, dm_compras_ganadores,
                   valor_dm_compras_ganadores, winners, vendor_df, warnings,
                   error>>
    /\ UNCHANGED <<df_insight_simple, consulta, prev>>

\* app.py lines 640-712: the POS is selected and its tables are filtered
SelectPosApp ==
    /\ pc = "select"
    /\ LET pos_list == PosList(loaded.pos_vendor_totals)
       IN  IF pos_list = << >>
           THEN /\ warnings' = warnings \cup {"No hay puntos de venta disponibles para analizar"}
                /\ pc' = "done"
                /\ UNCHANGED <<selected_pos, detail_table, orders_pos,
                               productos_pos>>
           ELSE \E p \in Range(pos_list) :
                /\ selected_pos' = p
                /\ detail_table' = DetailTable(loaded.pos_vendor_totals, p)
                /\ orders_pos' = FilterPos(loaded.df_original, p)
                /\ productos_pos' = ProductosPos(loaded.df_productos_unificados, p)
                /\ pc' = "dm"
                /\ UNCHANGED warnings
    /\ UNCHANGED <<files, loaded, df_vendor_dm, df_vendors_pos,
                   df_vendor_winners, dm_bound, dm_vendors_detail,
                   dm_compras_ganadores, valor_dm_compras_ganadores, winners,
                   vendor_df, error>>
    /\ UNCHANGED <<df_insight_simple, consulta, cache, prev>>

\* app.py lines 714-860: the attribution to the vendors that are manufacturers
DmAttributionApp ==
    /\ pc = "dm"
    /\ IF IsEmpty(df_vendor_dm)
       THEN /\ warnings' = warnings \cup {"No se pudo cargar el archivo vendors_dm.csv o está vacío."}
            /\ pc' = "products"
            /\ UNCHANGED <<dm_bound, dm_vendors_detail, dm_compras_ganadores,
                           valor_dm_compras_ganadores, error>>
       ELSE IF CrearDmRaises(detail_table, df_vendor_dm)
       THEN /\ Raise("KeyError: 'drug_manufacturer_id'")
            /\ UNCHANGED <<dm_bound, dm_vendors_detail, dm_compras_ganadores,
                           valor_dm_compras_ganadores, warnings>>
       ELSE LET detail == crear_dataframe_vendors_dm(detail_table, df_vendor_dm)
                ganadores == DmComprasGanadores(
                                 DmCompras(orders_pos, detail), productos_pos)
                valor_dm == ValorDmComprasGanadoresApp(ganadores)
                repartido == Apportion(detail, ganadores, valor_dm)
            IN  /\ dm_bound' = TRUE
                /\ pc' = "products"
                /\ UNCHANGED error
                /\ IF IsEmpty(detail)
                   THEN /\ dm_vendors_detail' = detail
                        /\ UNCHANGED <<dm_compras_ganadores,
                                       valor_dm_compras_ganadores, warnings>>
                   ELSE IF DmBlockRaisesApp(productos_pos)
                   THEN /\ dm_vendors_detail' = detail
                        /\ warnings' = warnings \cup {"Error al calcular estadísticas de drug manufacturers"}
                        /\ UNCHANGED <<dm_compras_ganadores,
                                       valor_dm_compras_ganadores>>
                   ELSE /\ dm_vendors_detail' = repartido
                        /\ dm_compras_ganadores' = ganadores
                        /\ valor_dm_compras_ganadores' = valor_dm
                        /\ warnings' =
                               IF Discrepancia(repartido.rows, valor_dm)
                               THEN warnings \cup {"Discrepancia en los cálculos"}
                               ELSE warnings
    /\ UNCHANGED <<files, loaded, df_vendor_dm, df_vendors_pos, selected_pos,
                   detail_table, orders_pos, productos_pos, df_vendor_winners,
                   winners, vendor_df>>
    /\ UNCHANGED <<df_insight_simple, consulta, cache, prev>>

NextApp ==
    \/ LoadAndProcessApp
    \/ ReloadReference
    \/ SelectPosApp
    \/ DmAttributionApp

SpecApp == InitApp /\ [][NextApp]_vars

(***************************************************************************)
(* The script of app2.py run again and again by Streamlit: every run       *)
(* starts from the top with fresh variables, the entry of st.cache_data    *)
(* outlives the run, and the input files may be replaced between two runs. *)
(***************************************************************************)
\* vendors_dm.csv and vendor_pos_relations.csv as replaced between two runs
LinksReplaced == {<<[vendor_id |-> 2, drug_manufacturer_id |-> 10]>>}
RelationsReplaced ==
    {<<[vendor_id |-> 1, point_of_sale_id |-> 1, status |-> 0]>>}

FilesReruns ==
    {MkFiles(o, c, d, r, m, a) :
        o \in OrdersTables(LinesReruns, ValorCols) \cup OrdersSinUnidades,
        c \in SeqsUpTo(EntriesNarrow, 1),
        d \in {f \in VendorsDmFiles : f.rows \in LinksNarrow},
        r \in RelationTables, m \in MinPurchaseFiles, a \in PosAddressTables}
    \cup
    {MkFiles(o, c, d, r, m, a) :
        o \in {t \in OrdersTables(LinesReruns, ValorCols) : Len(t.rows) = 1},
        c \in {e \in SeqsUpTo(EntriesNarrow, 1) :
                  Len(e) = 1 /\ e[1].vendor_id = 1},
        d \in {f \in VendorsDmFiles : f.rows \in LinksNarrow \cup LinksReplaced},
        r \in RelationTables \cup RelationsReplaced,
        m \in MinPurchaseFiles, a \in PosAddressTables}

InitReruns ==
    /\ files \in FilesReruns
    /\ InitScript

\* what a finished run has produced, with the files it ran on
Snapshot ==
    [files |-> files, pc |-> pc, error |-> error,
     selected_pos |-> selected_pos, loaded |-> loaded,
     detail_table |-> detail_table, dm_vendors_detail |-> dm_vendors_detail,
     winners |-> winners, vendor_df |-> vendor_df,
     df_insight_simple |-> df_insight_simple]

\* a finished run is followed by another one (an interaction with a widget
\* or a saved file), on the same input files or on replaced ones
Rerun ==
    /\ pc \in {"done", "error"}
    /\ prev' = <<Snapshot>>
    /\ \E g \in FilesReruns : files' = g
    /\ pc' = "start"
    /\ loaded' = NotLoaded
    /\ df_vendor_dm' = EmptyDF
    /\ df_vendors_pos' = EmptyDF
    /\ selected_pos' = 0
    /\ detail_table' = EmptyDF
    /\ orders_pos' = EmptyDF
    /\ productos_pos' = EmptyDF
    /\ df_vendor_winners' = EmptyDF
    /\ dm_bound' = FALSE
    /\ dm_vendors_detail' = EmptyDF
    /\ dm_compras_ganadores' = EmptyDF
    /\ valor_dm_compras_ganadores' = 0
    /\ winners' = EmptyDF
    /\ vendor_df' = EmptyDF
    /\ warnings' = {}
    /\ error' = ""
    /\ df_insight_simple' = EmptyDF
    /\ UNCHANGED <<consulta, cache>>

NextReruns ==
    \/ LoadAndProcess
    \/ ReloadReference
    \/ SelectPos
    \/ DmAttribution
    \/ ProductAnalysis
    \/ VendorAnalysis
    \/ GenerarInsight
    \/ Rerun

SpecReruns == InitReruns /\ [][NextReruns]_vars

(***************************************************************************)
(* The status functions and generar_insight_simple on their own: the       *)
(* table each receives is drawn from its domain.                            *)
(***************************************************************************)
SinDatos ==
    MkFiles(DF(OrdersBaseCols, << >>), << >>,
            [exists |-> FALSE, cols |-> {}, rows |-> << >>], << >>,
            [exists |-> FALSE, rows |-> << >>], << >>)

InitFunction(position, relations, pos, vendors) ==
    /\ files = SinDatos
    /\ pc = position
    /\ loaded = NotLoaded
    /\ df_vendor_dm = EmptyDF
    /\ df_vendors_pos = relations
    /\ selected_pos = pos
    /\ detail_table = EmptyDF
    /\ orders_pos = EmptyDF
    /\ productos_pos = EmptyDF
    /\ df_vendor_winners = EmptyDF
    /\ dm_bound = FALSE
    /\ dm_vendors_detail = EmptyDF
    /\ dm_compras_ganadores = EmptyDF
    /\ valor_dm_compras_ganadores = 0
    /\ winners = EmptyDF
    /\ vendor_df = vendors
    /\ warnings = {}
    /\ error = ""
    /\ df_insight_simple = EmptyDF
    /\ consulta = NoConsulta
    /\ cache = NoCache
    /\ prev = NoRun

InitStatus == \E r \in RelationFrames : InitFunction("status", r, 0, EmptyDF)

\* get_status_description(obtener_status_vendor(vendor_id, pos_id, ...))
ConsultarStatus ==
    /\ pc = "status"
    /\ \E v \in CatalogVendors, p \in PosIds :
           consulta' =
               <<[vendor_id |-> v, pos_id |-> p,
                  status |-> obtener_status_vendor(v, p, df_vendors_pos),
                  descripcion |-> get_status_description(
                      obtener_status_vendor(v, p, df_vendors_pos))]>>
    /\ pc' = "done"
    /\ UNCHANGED <<files, loaded, df_vendor_dm, df_vendors_pos, selected_pos,
                   detail_table, orders_pos, productos_pos, df_vendor_winners,
                   dm_bound, dm_vendors_detail, dm_compras_ganadores,
                   valor_dm_compras_ganadores, winners, vendor_df, warnings,
                   error, df_insight_simple, cache, prev>>

NextStatus == ConsultarStatus

SpecStatus == InitStatus /\ [][NextStatus]_vars

\* unificar_productos_sin_duplicados on its own: the global products of
\* top_5_productos_geozona.csv and the local winners, each a table of any
\* rows (repeated keys among them), a table without rows, or pd.DataFrame()
ClaveCols == {"point_of_sale_id", "super_catalog_id", "vendor_id"}
GlobalCols == ClaveCols \cup {"valor_total_vendedor"}
LocalCols == GlobalCols \cup {"precio_minimo_orders"}
GlobalRows ==
    [point_of_sale_id : {1}, super_catalog_id : Products,
     vendor_id : CatalogVendors, valor_total_vendedor : ValoresTotales]
GlobalFrames ==
    {EmptyDF} \cup {DF(GlobalCols, r) : r \in SeqsUpTo(GlobalRows, MaxProductRows)}
LocalFrames ==
    {EmptyDF} \cup
    {DF(LocalCols, MapIdx(r, LAMBDA x : ("precio_minimo_orders" :> PrecioPagado) @@ x)) :
        r \in SeqsUpTo(GlobalRows, MaxProductRows)}

\* a call of a function on its own: its arguments, then its result as well
InitLlamada(position, llamada) ==
    /\ files = SinDatos
    /\ pc = position
    /\ loaded = NotLoaded
    /\ df_vendor_dm = EmptyDF
    /\ df_vendors_pos = EmptyDF
    /\ selected_pos = 0
    /\ detail_table = EmptyDF
    /\ orders_pos = EmptyDF
    /\ productos_pos = EmptyDF
    /\ df_vendor_winners = EmptyDF
    /\ dm_bound = FALSE
    /\ dm_vendors_detail = EmptyDF
    /\ dm_compras_ganadores = EmptyDF
    /\ valor_dm_compras_ganadores = 0
    /\ winners = EmptyDF
    /\ vendor_df = EmptyDF
    /\ warnings = {}
    /\ error = ""
    /\ df_insight_simple = EmptyDF
    /\ consulta = <<llamada>>
    /\ cache = NoCache
    /\ prev = NoRun

InitUnificar ==
    \E g \in GlobalFrames, l \in LocalFrames :
        InitLlamada("unificar", [df_global |-> g, df_local |-> l])

\* df_productos_unificados = unificar_productos_sin_duplicados(df_products,
\*                               df_productos_ganadores_local)
Unificar ==
    /\ pc = "unificar"
    /\ consulta' =
           <<[df_global |-> consulta[1].df_global,
              df_local |-> consulta[1].df_local,
              df_unificado |-> unificar_productos_sin_duplicados(
                  consulta[1].df_global, consulta[1].df_local)]>>
    /\ pc' = "done"
    /\ UNCHANGED <<files, loaded, df_vendor_dm, df_vendors_pos, selected_pos,
                   detail_table, orders_pos, productos_pos, df_vendor_winners,
                   dm_bound, dm_vendors_detail, dm_compras_ganadores,
                   valor_dm_compras_ganadores, winners, vendor_df, warnings,
                   error, df_insight_simple, cache, prev>>

NextUnificar == Unificar

SpecUnificar == InitUnificar /\ [][NextUnificar]_vars

\* calcular_potencial_convertido on its own: order lines of the vendors 1
\* and 10 at either POS, and manufacturer links of any rows, the same
\* vendor_id in several of them included
PedidosLines ==
    [order_id : {1}, point_of_sale_id : PosIds, vendor_id : {1, 10},
     super_catalog_id : Products, unidades_pedidas : {MaxUnits},
     precio_minimo : Prices]
PedidosFrames ==
    {EmptyDF} \cup OrdersTables(PedidosLines, OrdersBaseCols)
VendorDmFrames ==
    {EmptyDF, DF({"drug_manufacturer_id"}, <<[drug_manufacturer_id |-> 10]>>)}
    \cup {DF(DmColsOk, r) : r \in SeqsUpTo(DmLinks, MaxLinks)}

InitPotencial ==
    \E p \in PedidosFrames, d \in VendorDmFrames :
        InitLlamada("potencial", [df_pedidos |-> p, df_vendor_dm |-> d])

\* df_potencial_convertido = calcular_potencial_convertido(df_pedidos,
\*                                                        df_vendor_dm)
Potencial ==
    /\ pc = "potencial"
    /\ consulta' =
           <<[df_pedidos |-> consulta[1].df_pedidos,
              df_vendor_dm |-> consulta[1].df_vendor_dm,
              df_potencial_convertido |-> calcular_potencial_convertido(
                  consulta[1].df_pedidos, consulta[1].df_vendor_dm)]>>
    /\ pc' = "done"
    /\ UNCHANGED <<files, loaded, df_vendor_dm, df_vendors_pos, selected_pos,
                   detail_table, orders_pos, productos_pos, df_vendor_winners,
                   dm_bound, dm_vendors_detail, dm_compras_ganadores,
                   valor_dm_compras_ganadores, winners, vendor_df, warnings,
                   error, df_insight_simple, cache, prev>>

NextPotencial == Potencial

SpecPotencial == InitPotencial /\ [][NextPotencial]_vars

InitInsight ==
    \E v \in VendorFrames, p \in PosIds : InitFunction("insight", EmptyDF, p, v)

NextInsight == GenerarInsight

SpecInsight == InitInsight /\ [][NextInsight]_vars

(***************************************************************************)
(* The claims.                                                             *)
(***************************************************************************)
Clasificado == loaded.df_clasificado.rows

MinPrecioVendedor(df, i) == SetMin({df[k].precio_vendedor : k \in GroupOf(df, i)})

\* C1: every row of the classified table (units > 0, one catalog candidate)
\* carries exactly one of the three labels, never the initial empty label,
\* and every row labelled 'Precio vendor minimo' has the minimum
\* precio_vendedor of its (order_id, super_catalog_id) group.
C1_Labelled ==
    \A i \in 1..Len(Clasificado) :
        /\ Clasificado[i].unidades_pedidas > 0
        /\ Clasificado[i].clasificacion \in Labels
        /\ Clasificado[i].clasificacion # NoLabel
        /\ Clasificado[i].clasificacion = VendorMin
               => Clasificado[i].precio_vendedor = MinPrecioVendedor(Clasificado, i)

C1_Witness ==
    \E i, k \in 1..Len(Clasificado) :
        /\ k \in GroupOf(Clasificado, i)
        /\ Clasificado[i].clasificacion = VendorMin
        /\ Clasificado[k].clasificacion = VendorNoMin

\* the paid price of the group of row i: that of the group's first row
PrecioPagadoGrupo(df, i) == df[SetMin(GroupOf(df, i))].precio_minimo

Empatados(df) ==
    {i \in 1..Len(df) :
        /\ df[i].precio_vendedor = MinPrecioVendedor(df, i)
        /\ PrecioPagadoGrupo(df, i) >= MinPrecioVendedor(df, i)
        /\ \E k \in GroupOf(df, i) :
               k # i /\ df[k].precio_vendedor = df[i].precio_vendedor}

EnGanadores(r) ==
    \E w \in Range(winners.rows) : \A c \in productos_pos.cols : w[c] = r[c]

WinnersListos == pc \in {"vendors", "done"} /\ selected_pos # 0

\* C3: the rows of a group that tie at the group's minimum sell price, the
\* paid price not below it, are all labelled 'Precio vendor minimo' and are
\* all in the winners table of the per-vendor potential.
C3_Ties ==
    /\ \A i \in Empatados(Clasificado) : Clasificado[i].clasificacion = VendorMin
    /\ WinnersListos =>
           \A i \in Empatados(productos_pos.rows) :
               EnGanadores(productos_pos.rows[i])

C3_Witness ==
    /\ WinnersListos
    /\ \E i, k \in Empatados(productos_pos.rows) :
           /\ k \in GroupOf(productos_pos.rows, i)
           /\ productos_pos.rows[i].vendor_id # productos_pos.rows[k].vendor_id
           /\ EnGanadores(productos_pos.rows[i])
           /\ EnGanadores(productos_pos.rows[k])

\* exact fractions <<num, den>>, den > 0
FracAdd(a, b) == <<a[1] * b[2] + b[1] * a[2], a[2] * b[2]>>
FracLeq(a, b) == a[1] * b[2] <= b[1] * a[2]
FracEq(a, b) == a[1] * b[2] = b[1] * a[2]

RECURSIVE FracSum(_)
FracSum(s) == IF s = << >> THEN <<0, 1>> ELSE FracAdd(s[1], FracSum(Tail(s)))

AnalisisListo == pc = "done" /\ selected_pos # 0

\* the sum of precio_total_vendedor over the 'Precio vendor minimo' rows of
\* the classified table at the selected POS
TotalVendorMinimo ==
    ColSum(SelectSeq(productos_pos.rows, LAMBDA r : r.clasificacion = VendorMin),
           "precio_total_vendedor")

\* C4: the sum of Valor Potencial Total + Valor Convertido over the vendor
\* table of a POS does not exceed the sum of precio_total_vendedor over the
\* 'Precio vendor minimo' rows of that POS.
C4_Conservation ==
    AnalisisListo =>
        FracLeq(FracSum(MapIdx(vendor_df.rows, LAMBDA r :
                    FracAdd(r["Valor Potencial Total"], r["Valor Convertido"]))),
                <<TotalVendorMinimo, 1>>)

\* a manufacturer vendor whose winning value exceeds its raw potential
C4_Witness ==
    /\ AnalisisListo
    /\ \E r \in Range(vendor_df.rows) :
           /\ r["Es Drug Manufacturer"] = "Sí"
           /\ r["Valor Convertido"][1] > 0
           /\ r["Valor Potencial Total"][1] = 0

\* vendors_dm.csv is missing, empty, or lacks drug_manufacturer_id
SinVendorsDm ==
    \/ ~files.vendors_dm.exists
    \/ files.vendors_dm.rows = << >>
    \/ "drug_manufacturer_id" \notin files.vendors_dm.cols

ErroresDm ==
    {"KeyError: 'drug_manufacturer_id'",
     "NameError: name 'dm_vendors_detail' is not defined"}

\* C5: without a usable vendors_dm table the analysis of the selected POS
\* ends without an exception in the handler around the script, and every
\* vendor of the winners is in the vendor table with 'Es Drug Manufacturer'
\* 'No' and Valor Convertido 0.
C5_Graceful ==
    SinVendorsDm =>
        /\ error \notin ErroresDm
        /\ AnalisisListo =>
               \A w \in Range(winners.rows) :
                   \E r \in Range(vendor_df.rows) :
                       /\ r["Vendor ID"] = w.vendor_id
                       /\ r["Es Drug Manufacturer"] = "No"
                       /\ r["Valor Convertido"] = <<0, 1>>

\* the call of actualizar_vendor_analysis is reached without the table
C5_Witness ==
    /\ SinVendorsDm
    /\ pc = "vendors"
    /\ winners.rows # << >>

\* C6: the vendor table has at most one row per Vendor ID.
C6_OneRowPerVendor ==
    AnalisisListo =>
        \A i, k \in 1..Len(vendor_df.rows) :
            vendor_df.rows[i]["Vendor ID"] = vendor_df.rows[k]["Vendor ID"]
                => i = k

\* two purchased drug_manufacturer_ids resolve to one Vendor Real ID
C6_Witness ==
    /\ AnalisisListo
    /\ \E i, k \in 1..Len(dm_vendors_detail.rows) :
           /\ i # k
           /\ dm_vendors_detail.rows[i]["Vendor Real ID"]
                  = dm_vendors_detail.rows[k]["Vendor Real ID"]

\* raw - converted, floored at zero
FracResta(raw, converted) ==
    IF raw * converted[2] - converted[1] > 0
    THEN <<raw * converted[2] - converted[1], converted[2]>>
    ELSE <<0, 1>>

\* the sum of precio_total_vendedor over the 'Precio vendor minimo' rows of
\* a vendor in the winners table of the POS
RawPotencial(vendor_id) ==
    ColSum(SelectSeq(winners.rows, LAMBDA r :
               r.vendor_id = vendor_id /\ r.clasificacion = VendorMin),
           "precio_total_vendedor")

C10_OnlyCheapest ==
    \A r \in Range(dm_compras_ganadores.rows) : r.clasificacion = VendorMin

\* a positive winning value from a row with another label
C10_Witness ==
    /\ valor_dm_compras_ganadores > 0
    /\ \E r \in Range(dm_compras_ganadores.rows) : r.clasificacion = DrogMin

\* a catalog entry is eligible for an order line: a national entry of the
\* product, or a regional entry of the product for the geo_zone of the POS
ZonaDe(l) == GeoZoneOf(PosGeoZones(files.pos_address), l.point_of_sale_id)

Elegible(l, e) ==
    /\ l.unidades_pedidas > 0
    /\ e.super_catalog_id = l.super_catalog_id
    /\ (e.name = Nacional \/ e.name = ZonaDe(l))

\* the resolved table has a row of the order line l and the catalog entry e
FilaDelPar(rows, l, e) ==
    \E r \in Range(rows) :
        /\ r.order_id = l.order_id
        /\ r.point_of_sale_id = l.point_of_sale_id
        /\ r.vendor_id_x = l.vendor_id
        /\ r.unidades_pedidas = l.unidades_pedidas
        /\ r.precio_minimo = l.precio_minimo
        /\ r.super_catalog_id = e.super_catalog_id
        /\ r.vendor_id = e.vendor_id
        /\ r.name = e.name
        /\ r.base_price = e.base_price

Cargado == pc # "start" /\ ~LoadRaisesApp(files)

RepartoHecho == "Valor Compras Ganadores" \in dm_vendors_detail.cols

\* C9: after the apportioning loop, with a positive aggregate winning value,
\* |sum of 'Valor Compras Ganadores' - valor_dm_compras_ganadores| is at
\* most 0.01 * valor_dm_compras_ganadores.
C9_Reconciled ==
    (RepartoHecho /\ valor_dm_compras_ganadores > 0) =>
        LET t == TotalCalculado(dm_vendors_detail.rows)
        IN  100 * Abs(t[1] - valor_dm_compras_ganadores * t[2])
                <= valor_dm_compras_ganadores * t[2]

\* the fallback redistributed the aggregate among two manufacturer vendors
C9_Witness ==
    /\ RepartoHecho
    /\ valor_dm_compras_ganadores > 0
    /\ Len(dm_vendors_detail.rows) > 1
    /\ ~WithinTolerance(SumVendorValores(dm_compras_ganadores,
                                         dm_vendors_detail.rows),
                        valor_dm_compras_ganadores)

(***************************************************************************)
(* C11: a pair without a row in the relation table is described as         *)
(* 'Sin Status' and nothing is raised; a pair with a row is described by   *)
(* the status of its first row: 0 'Rechazado', 1 'Activo', 2 'Pendiente'   *)
(* (and 'Sin Status' when that row's status is empty).                     *)
(***************************************************************************)
Consultado == pc = "done" /\ consulta # NoConsulta

\* the rows of vendor_pos_relations.csv of a pair, in file order
RelacionesDe(v, p) ==
    IF {"vendor_id", "point_of_sale_id"} \subseteq df_vendors_pos.cols
    THEN SelectSeq(df_vendors_pos.rows, LAMBDA r :
             r.vendor_id = v /\ r.point_of_sale_id = p)
    ELSE << >>

C11_SinStatus ==
    Consultado =>
        LET q == consulta[1]
            rel == RelacionesDe(q.vendor_id, q.pos_id)
        IN  /\ rel = << >> => q.descripcion = "Sin Status"
            /\ (rel # << >> /\ "status" \in df_vendors_pos.cols) =>
                   /\ rel[1].status = 0 => q.descripcion = "Rechazado"
                   /\ rel[1].status = 1 => q.descripcion = "Activo"
                   /\ rel[1].status = 2 => q.descripcion = "Pendiente"
                   /\ rel[1].status = Null => q.descripcion = "Sin Status"

\* a pair without a relation has been looked up in a table that holds
\* relations of other pairs
C11_Witness ==
    /\ Consultado
    /\ df_vendors_pos.rows # << >>
    /\ "status" \in df_vendors_pos.cols
    /\ RelacionesDe(consulta[1].vendor_id, consulta[1].pos_id) = << >>
    /\ \E r \in Range(df_vendors_pos.rows) : r.status = 1

(***************************************************************************)
(* C12: when a step of load_and_process_data raises, the call does not     *)
(* raise and every table of the returned tuple is empty; no computed table *)
(* comes back beside empty ones.                                           *)
(***************************************************************************)
Devuelto == pc # "start"

C12_AllEmpty ==
    (Devuelto /\ LoadRaises(files)) =>
        /\ loaded.pos_vendor_totals = EmptyDF
        /\ loaded.df_original = EmptyDF
        /\ loaded.pos_order_stats = << >>
        /\ loaded.df_min_purchase = EmptyDF
        /\ loaded.df_vendor_dm = EmptyDF
        /\ loaded.pos_geo_zones = << >>
        /\ loaded.df_clasificado = EmptyDF
        /\ pc = "loaded" => error = ""

\* the load has returned from a file of orders with lines and without the
\* column unidades_pedidas
C12_Witness ==
    /\ pc = "loaded"
    /\ LoadRaises(files)
    /\ files.orders # << >>
    /\ files.catalog # << >>

(***************************************************************************)
(* C13: a call of load_and_process_data hands the script the tuple         *)
(* computed from the input files as they are at the call; a run after the  *)
(* files were replaced, or after a failing file was repaired, never gets   *)
(* the tuple of the old files.                                             *)
(***************************************************************************)
C13_NeverStale ==
    pc = "loaded" => loaded = load_and_process_data(files)

\* a run has loaded after an earlier run on other files
C13_Witness ==
    /\ pc = "loaded"
    /\ prev # NoRun
    /\ prev[1].files # files
    /\ load_and_process_data(prev[1].files) # load_and_process_data(files)

(***************************************************************************)
(* C14: two consecutive runs on the same input files, with the same POS    *)
(* selected, end in the same place with the same tables, row for row and   *)
(* value for value.                                                        *)
(***************************************************************************)
DosCorridas ==
    /\ pc \in {"done", "error"}
    /\ prev # NoRun
    /\ prev[1].files = files
    /\ prev[1].selected_pos = selected_pos

C14_Idempotent == DosCorridas => Snapshot = prev[1]

\* the second of two runs on the same files has produced a vendor table
C14_Witness ==
    /\ DosCorridas
    /\ pc = "done"
    /\ vendor_df.rows # << >>
    /\ loaded = load_and_process_data(files)

(***************************************************************************)
(* C15: every resolved row, national or regional, has                      *)
(* precio_vendedor = base_price * (1 + percentage / 100) with the          *)
(* percentage of its catalog entry, an absent percentage counting as 0: an *)
(* entry without percentage sells at exactly base_price, and no resolved   *)
(* row lacks its sell price.                                               *)
(***************************************************************************)
Resueltas == loaded.df_pedidos_proveedores.rows

\* the entries of vendors_catalog.csv a resolved row can come from
EntradasDe(r) ==
    {e \in Range(files.catalog) :
        /\ e.vendor_id = r.vendor_id
        /\ e.super_catalog_id = r.super_catalog_id
        /\ e.name = r.name
        /\ e.base_price = r.base_price
        /\ (IF e.percentage = Null THEN 0 ELSE e.percentage) = r.percentage}

C15_SellPrice ==
    Devuelto =>
        \A k \in 1..Len(Resueltas) :
            /\ Resueltas[k].precio_vendedor # Null
            /\ \E e \in EntradasDe(Resueltas[k]) :
                   100 * Resueltas[k].precio_vendedor =
                       e.base_price *
                           (100 + (IF e.percentage = Null THEN 0 ELSE e.percentage))

\* a national and a regional entry without percentage have both been resolved
\* at their base price
C15_Witness ==
    /\ Devuelto
    /\ \E i, j \in 1..Len(Resueltas) :
           /\ Resueltas[i].name = Nacional
           /\ Resueltas[j].name # Nacional
           /\ \A k \in {i, j} :
                  /\ \E e \in EntradasDe(Resueltas[k]) : e.percentage = Null
                  /\ Resueltas[k].precio_vendedor = Resueltas[k].base_price

(***************************************************************************)
(* C16: when the orders and the catalog both have a vendor_id column, the  *)
(* resolved table is left-joined with the relation table on                *)
(* (point_of_sale_id, vendor_id): it has a status column, every row holds  *)
(* the status of its relation or an empty one, and no candidate row is     *)
(* lost.                                                                   *)
(***************************************************************************)
AmbosConVendor ==
    /\ Devuelto
    /\ ~LoadRaises(files)
    /\ "vendor_id" \in files.orders_cols
    /\ "vendor_id" \in files.catalog_cols

\* the status of the first relation of a pair in vendor_pos_relations.csv
StatusDe(v, p) ==
    LET rel == SelectSeq(files.relations, LAMBDA x :
                   x.vendor_id = v /\ x.point_of_sale_id = p)
    IN  IF rel = << >> THEN Null ELSE rel[1].status

C16_StatusJoined ==
    AmbosConVendor =>
        /\ "status" \in loaded.df_pedidos_proveedores.cols
        /\ \A k \in 1..Len(Resueltas) :
               Resueltas[k].status =
                   StatusDe(Resueltas[k].vendor_id, Resueltas[k].point_of_sale_id)
        /\ Len(Resueltas) =
               Len(PedidosProveedores(
                       PedidosZonas(files.orders, PosGeoZones(files.pos_address)),
                       FillPercentage(files.catalog)))

\* a row has been resolved for a vendor that has a relation with the POS of
\* the row
C16_Witness ==
    /\ AmbosConVendor
    /\ \E k \in 1..Len(Resueltas) :
           StatusDe(Resueltas[k].vendor_id, Resueltas[k].point_of_sale_id) # Null

(***************************************************************************)
(* C17: after the de-duplication of app.py the resolved table has at most  *)
(* one row per (super_catalog_id, catalog vendor, geo_zone), and where a   *)
(* regional and a national entry both match a key the row kept is the      *)
(* regional one.                                                           *)
(***************************************************************************)
Unicas == loaded.df_pedidos_proveedores_unique.rows

\* a regional entry of the vendor matches an order line of the row's key
HayRegional(r) ==
    \E l \in Range(files.orders) : \E e \in Range(files.catalog) :
        /\ Elegible(l, e)
        /\ e.name # Nacional
        /\ e.super_catalog_id = r.super_catalog_id
        /\ e.vendor_id = r.vendor_id
        /\ ZonaDe(l) = r.geo_zone

C17_RegionalFirst ==
    Cargado =>
        /\ \A i, j \in 1..Len(Unicas) :
               (/\ Unicas[i].super_catalog_id = Unicas[j].super_catalog_id
                /\ Unicas[i].vendor_id = Unicas[j].vendor_id
                /\ Unicas[i].geo_zone = Unicas[j].geo_zone) => i = j
        /\ \A k \in 1..Len(Unicas) :
               HayRegional(Unicas[k]) => Unicas[k].name # Nacional

\* a national entry of the vendor matched the key as well, and the row kept
\* is the regional one
C17_Witness ==
    /\ Cargado
    /\ \E k \in 1..Len(Unicas) :
           /\ Unicas[k].name # Nacional
           /\ \E l \in Range(files.orders) : \E e \in Range(files.catalog) :
                  /\ Elegible(l, e)
                  /\ e.name = Nacional
                  /\ e.vendor_id = Unicas[k].vendor_id
                  /\ e.super_catalog_id = Unicas[k].super_catalog_id
                  /\ ZonaDe(l) = Unicas[k].geo_zone

(***************************************************************************)
(* C18: whenever the sum of the per-vendor winning values is not within 1% *)
(* of the aggregate winning value, so that the loop redistributes the      *)
(* aggregate, the user gets the warning of a discrepancy and the script    *)
(* goes on.                                                                *)
(***************************************************************************)
Redistribuido ==
    /\ RepartoHecho
    /\ ~WithinTolerance(SumVendorValores(dm_compras_ganadores,
                                         dm_vendors_detail.rows),
                        valor_dm_compras_ganadores)

C18_Warned ==
    Redistribuido =>
        /\ "Discrepancia en los cálculos" \in warnings
        /\ pc # "error"

\* a positive aggregate has been redistributed and the script has moved on
\* to the analysis of the products
C18_Witness ==
    /\ Redistribuido
    /\ pc = "products"
    /\ valor_dm_compras_ganadores > 0
    /\ SumVendorValores(dm_compras_ganadores, dm_vendors_detail.rows)
           # valor_dm_compras_ganadores

(***************************************************************************)
(* C19: the vendor table of a POS, as actualizar_vendor_analysis returns   *)
(* it and the script shows it, is ordered by 'Valor Potencial Total'       *)
(* descending.                                                             *)
(***************************************************************************)
TablaVendors == pc \in {"insight", "done"} /\ selected_pos # 0

C19_Descending ==
    TablaVendors =>
        \A i, j \in 1..Len(vendor_df.rows) :
            i < j => ~FracGt(vendor_df.rows[j]["Valor Potencial Total"],
                             vendor_df.rows[i]["Valor Potencial Total"])

\* the vendor table has two vendors with different potentials
C19_Witness ==
    /\ TablaVendors
    /\ \E i, j \in 1..Len(vendor_df.rows) :
           FracGt(vendor_df.rows[i]["Valor Potencial Total"],
                  vendor_df.rows[j]["Valor Potencial Total"])

(***************************************************************************)
(* C20: generar_insight_simple keeps exactly the vendor rows whose         *)
(* 'Valor Potencial Total' is 20000 or more (only the rows below 20000 are *)
(* left out) and returns them by potential descending.                     *)
(***************************************************************************)
InsightHecho == pc = "done" /\ selected_pos # 0

\* the vendor rows at or above the threshold
SobreUmbral ==
    SelectSeq(vendor_df.rows, LAMBDA r :
        ~FracGt(<<Umbral, 1>>, r["Valor Potencial Total"]))

C20_Threshold ==
    InsightHecho =>
        /\ Len(df_insight_simple.rows) = Len(SobreUmbral)
        /\ \A r \in Range(SobreUmbral) :
               \E q \in Range(df_insight_simple.rows) :
                   /\ q["Vendor ID"] = r["Vendor ID"]
                   /\ q["Valor Potencial"] = r["Valor Potencial Total"]
        /\ \A i, j \in 1..Len(df_insight_simple.rows) :
               i < j => ~FracGt(df_insight_simple.rows[j]["Valor Potencial"],
                                df_insight_simple.rows[i]["Valor Potencial"])

\* the insight has been generated from a vendor table with a row at exactly
\* the threshold and a row above it
C20_Witness ==
    /\ InsightHecho
    /\ \E r \in Range(vendor_df.rows) : r["Valor Potencial Total"] = <<Umbral, 1>>
    /\ \E r \in Range(vendor_df.rows) :
           FracGt(r["Valor Potencial Total"], <<Umbral, 1>>)
    /\ df_insight_simple.rows # << >>

(***************************************************************************)
(* C21: when the order table lacks precio_minimo, the classification stage *)
(* yields an empty table without raising, the per-vendor purchase totals   *)
(* and the order statistics are still what the order lines give, and the   *)
(* script run never ends in the top-level exception handler.               *)
(***************************************************************************)
SinPrecioMinimo ==
    /\ "precio_minimo" \notin files.orders_cols
    /\ ~LoadRaises(files)

C21_SinExcepcion ==
    (SinPrecioMinimo /\ pc # "start") =>
        /\ IsEmpty(loaded.df_clasificado)
        /\ HasTotalCompra(files.orders_cols) =>
               /\ loaded.pos_vendor_totals.rows = PosVendorTotals(files.orders)
               /\ loaded.pos_order_stats = PosOrderStats(files.orders)
        /\ pc # "error"
        /\ error = ""

\* the load has returned the totals of a POS and an empty classified table,
\* and the run has ended in the handler with the KeyError of line 934
C21_Witness ==
    /\ SinPrecioMinimo
    /\ IsEmpty(loaded.df_clasificado)
    /\ ~IsEmpty(loaded.pos_vendor_totals)
    /\ selected_pos # 0
    /\ pc = "error"
    /\ error = "KeyError: 'clasificacion'"

(***************************************************************************)
(* C22: the Minimum Purchase table gates nothing.  A run on files that     *)
(* differ from the present ones only in minimum_purchase.csv (absent,      *)
(* without rows, or with other rows) loads the same tables but             *)
(* df_min_purchase, and actualizar_vendor_analysis gives it the same       *)
(* vendors in the same order with the same Status, Valor Potencial Total,  *)
(* Valor Convertido and manufacturer fields: only 'Compra Mínima' may      *)
(* differ.                                                                 *)
(***************************************************************************)
OtrasCompraMinima == MinPurchaseFiles \cup MinPurchaseFilesPresent

SinCompraMinima(df) ==
    MapIdx(df.rows, LAMBDA r : [c \in DOMAIN r \ {"Compra Mínima"} |-> r[c]])

SinMinPurchase(t) == [c \in DOMAIN t \ {"df_min_purchase"} |-> t[c]]

Unificado == pc = "done" /\ "df_unificado" \in DOMAIN consulta[1]

Clave(r) == [c \in ClaveCols |-> r[c]]

ClaveRepetida(rows) ==
    \E i, j \in 1..Len(rows) : i < j /\ Clave(rows[i]) = Clave(rows[j])

C23_SinDuplicados ==
    Unificado => ~ClaveRepetida(consulta[1].df_unificado.rows)

\* the local table is empty, the global one repeats a key, and the table
\* returned repeats it too
C23_Witness ==
    /\ Unificado
    /\ IsEmpty(consulta[1].df_local)
    /\ ClaveRepetida(consulta[1].df_global.rows)
    /\ ClaveRepetida(consulta[1].df_unificado.rows)

(***************************************************************************)
(* C24: in the apportioning loop, with S the sum of the per-vendor winning *)
(* values and A the aggregate: when S is within 1% of A every vendor keeps *)
(* its own value; otherwise, when S > 0 every vendor gets its value times  *)
(* A/S (the shares are kept and the values sum to A), and when S = 0 each  *)
(* of the n manufacturer vendors of the POS gets A/n.                      *)
(***************************************************************************)
SumaIndividual ==
    SumVendorValores(dm_compras_ganadores, dm_vendors_detail.rows)

Individual(r) == VendorValor(dm_compras_ganadores, r["Droguería/Vendor ID"])

C24_Apportioned ==
    RepartoHecho =>
        LET S == SumaIndividual
            A == valor_dm_compras_ganadores
            n == Len(dm_vendors_detail.rows)
            dentro == 100 * Abs(S - A) < A
        IN  /\ \A r \in Range(dm_vendors_detail.rows) :
                   LET got == r["Valor Compras Ganadores"]
                   IN  /\ dentro => FracEq(got, <<Individual(r), 1>>)
                       /\ (~dentro /\ S > 0) =>
                              got[1] * S = Individual(r) * A * got[2]
                       /\ (~dentro /\ S = 0) => got[1] * n = A * got[2]
            /\ (~dentro /\ S > 0) =>
                   FracEq(TotalCalculado(dm_vendors_detail.rows), <<A, 1>>)

\* the aggregate has been redistributed in proportion among two manufacturer
\* vendors, and a vendor got a value other than its own
C24_Witness ==
    /\ RepartoHecho
    /\ Redistribuido
    /\ SumaIndividual > 0
    /\ valor_dm_compras_ganadores > 0
    /\ Len(dm_vendors_detail.rows) = 2
    /\ \E r \in Range(dm_vendors_detail.rows) :
           /\ Individual(r) > 0
           /\ ~FracEq(r["Valor Compras Ganadores"], <<Individual(r), 1>>)

\* the aggregate has been split in equal parts among two vendors
C24_PartesIguales ==
    /\ Redistribuido
    /\ SumaIndividual = 0
    /\ valor_dm_compras_ganadores > 0
    /\ Len(dm_vendors_detail.rows) = 2

\* a vendor with a positive value has kept it
C24_Dentro ==
    /\ RepartoHecho
    /\ ~Redistribuido
    /\ \E r \in Range(dm_vendors_detail.rows) : Individual(r) > 0

(***************************************************************************)
(* C25: every vendor with a row labelled 'Precio vendor minimo' for the    *)
(* selected POS is in the table actualizar_vendor_analysis returns.  A     *)
(* vendor the manufacturers' pass has not emitted has one row, after every *)
(* manufacturer's row, with Valor Convertido 0, 'Es Drug Manufacturer'     *)
(* 'No', 'Total Comprado Como DM' 0, and as Valor Potencial Total the sum  *)
(* of precio_total_vendedor over its cheapest rows.                        *)
(***************************************************************************)
VendorsBaratos ==
    {r.vendor_id : r \in {q \in Range(productos_pos.rows) :
                             q.clasificacion = VendorMin}}

FilasDe(v) == {i \in 1..Len(vendor_df.rows) : vendor_df.rows[i]["Vendor ID"] = v}

EmitidoComoDm(v) ==
    \E i \in FilasDe(v) : vendor_df.rows[i]["Es Drug Manufacturer"] = "Sí"

LineasDe(r) ==
    {l \in Range(files.orders) :
        /\ l.order_id = r.order_id
        /\ l.point_of_sale_id = r.point_of_sale_id
        /\ l.super_catalog_id = r.super_catalog_id
        /\ l.unidades_pedidas = r.unidades_pedidas}

C26_TwoFields ==
    Devuelto =>
        \A k \in 1..Len(Resueltas) :
            /\ {"vendor_id", "drug_manufacturer_id"} \subseteq DOMAIN Resueltas[k]
            /\ EntradasDe(Resueltas[k]) # {}
            /\ \E l \in LineasDe(Resueltas[k]) :
                   l.vendor_id = Resueltas[k].drug_manufacturer_id

\* a resolved row holds the vendor of its catalog entry in vendor_id and
\* the vendor of its order line in vendor_id_x, and has no field
\* drug_manufacturer_id
C26_Witness ==
    /\ Devuelto
    /\ \E k \in 1..Len(Resueltas) :
           /\ "drug_manufacturer_id" \notin DOMAIN Resueltas[k]
           /\ EntradasDe(Resueltas[k]) # {}
           /\ \E l \in LineasDe(Resueltas[k]) :
                  /\ l.vendor_id = Resueltas[k].vendor_id_x
                  /\ l.vendor_id # Resueltas[k].vendor_id

\* what the code keeps instead: the vendor of the order line stays in
\* vendor_id_x, beside the vendor of the catalog entry in vendor_id
C26_Separados ==
    Devuelto =>
        \A k \in 1..Len(Resueltas) :
            /\ {"vendor_id", "vendor_id_x"} \subseteq DOMAIN Resueltas[k]
            /\ EntradasDe(Resueltas[k]) # {}
            /\ \E l \in LineasDe(Resueltas[k]) :
                   l.vendor_id = Resueltas[k].vendor_id_x

(***************************************************************************)
(* C27: in every run the Manufacturer Link table and the Vendor-POS        *)
(* relation table the attribution and the vendor analysis work with have   *)
(* the contents of the ones load_and_process_data read for the tuple on    *)
(* display, whatever the cached loads, replacements of vendors_dm.csv or   *)
(* vendor_pos_relations.csv and reruns that came before.                   *)
(***************************************************************************)
Atribuyendo ==
    /\ pc \in {"dm", "products", "vendors", "insight", "done"}
    /\ selected_pos # 0

C27_OneSnapshot ==
    Atribuyendo =>
        /\ df_vendor_dm.rows = loaded.df_vendor_dm.rows
        /\ df_vendors_pos.rows = loaded.df_vendors_pos.rows

\* a run after vendors_dm.csv was replaced has built its vendor table from
\* the classified table of the cached tuple and the links of the new file
C27_Witness ==
    /\ Atribuyendo
    /\ pc = "done"
    /\ prev # NoRun
    /\ prev[1].files.vendors_dm # files.vendors_dm
    /\ loaded = load_and_process_data(prev[1].files)
    /\ ~IsEmpty(loaded.df_clasificado)
    /\ df_vendor_dm.rows # loaded.df_vendor_dm.rows
    /\ vendor_df.rows # << >>

(***************************************************************************)
(* C28: when a (point_of_sale_id, super_catalog_id, vendor_id) key is in   *)
(* both inputs of unificar_productos_sin_duplicados, the one row the       *)
(* result keeps for it is a row of df_local; and every key of either input *)
(* is a key of the result.                                                 *)
(***************************************************************************)
Claves(df) == {Clave(r) : r \in Range(df.rows)}

C28_LocalFirst ==
    Unificado =>
        LET g == consulta[1].df_global
            l == consulta[1].df_local
            u == consulta[1].df_unificado
        IN  /\ Claves(g) \cup Claves(l) \subseteq Claves(u)
            /\ \A k \in Claves(g) \cap Claves(l) :
                   /\ Cardinality({i \in 1..Len(u.rows) : Clave(u.rows[i]) = k}) = 1
                   /\ \A r \in Range(u.rows) :
                          Clave(r) = k =>
                              /\ r.origen = "local"
                              /\ [c \in l.cols |-> r[c]] \in Range(l.rows)

\* a key is in both inputs with different values, and the result has the
\* value of the local row
C28_Witness ==
    /\ Unificado
    /\ \E a \in Range(consulta[1].df_global.rows) :
       \E b \in Range(consulta[1].df_local.rows) :
           /\ Clave(a) = Clave(b)
           /\ a.valor_total_vendedor # b.valor_total_vendedor
           /\ \E r \in Range(consulta[1].df_unificado.rows) :
                  /\ Clave(r) = Clave(b)
                  /\ r.valor_total_vendedor = b.valor_total_vendedor

(***************************************************************************)
(* C29: after the apportioning loop the winning value of every             *)
(* manufacturer vendor of the POS ('Valor Compras Ganadores') is at most   *)
(* what the POS bought from it ('Total Comprado'), so '% Compras           *)
(* Ganadores' is at most 100, redistributed values included.               *)
(***************************************************************************)
C29_Bounded ==
    RepartoHecho =>
        \A r \in Range(dm_vendors_detail.rows) :
            /\ FracLeq(r["Valor Compras Ganadores"], <<r["Total Comprado"], 1>>)
            /\ FracLeq(r["% Compras Ganadores"], <<100, 1>>)

\* a manufacturer vendor the POS bought from has a winning value above its
\* purchases, without any redistribution
C29_Witness ==
    /\ RepartoHecho
    /\ ~Redistribuido
    /\ \E r \in Range(dm_vendors_detail.rows) :
           /\ r["Total Comprado"] > 0
           /\ FracGt(r["Valor Compras Ganadores"], <<r["Total Comprado"], 1>>)
           /\ FracGt(r["% Compras Ganadores"], <<100, 1>>)

Convertido == pc = "done" /\ "df_potencial_convertido" \in DOMAIN consulta[1]

\* the total_compra of the order lines of vendor v at POS p, each line once
CompradoUnaVez(df, p, v) ==
    SumSeq(MapIdx(SelectSeq(df.rows, LAMBDA l :
                      l.point_of_sale_id = p /\ l.vendor_id = v),
                  TotalCompra))

\* the number of link rows that carry vendor v
LinksDe(df, v) == Cardinality({i \in 1..Len(df.rows) : df.rows[i].vendor_id = v})

\* C30: every (point_of_sale_id, vendor_id) row returned by
\* calcular_potencial_convertido has as valor_convertido the sum of
\* total_compra over that vendor's order lines at that POS, each order line
\* counted exactly once, whatever the manufacturer links are.
C30_CadaLineaUnaVez ==
    Convertido =>
        \A t \in Range(consulta[1].df_potencial_convertido.rows) :
            t.valor_convertido =
                CompradoUnaVez(consulta[1].df_pedidos,
                               t.point_of_sale_id, t.vendor_id)

\* a vendor with purchases appears in two link rows and its returned value
\* is twice what was bought from it
C30_Witness ==
    /\ Convertido
    /\ \E t \in Range(consulta[1].df_potencial_convertido.rows) :
           /\ LinksDe(consulta[1].df_vendor_dm, t.vendor_id) = 2
           /\ CompradoUnaVez(consulta[1].df_pedidos,
                             t.point_of_sale_id, t.vendor_id) > 0
           /\ t.valor_convertido =
                  2 * CompradoUnaVez(consulta[1].df_pedidos,
                                     t.point_of_sale_id, t.vendor_id)

\* what the function does return: each line once per link row of its vendor
C30_UnaVezPorLink ==
    Convertido =>
        \A t \in Range(consulta[1].df_potencial_convertido.rows) :
            t.valor_convertido =
                LinksDe(consulta[1].df_vendor_dm, t.vendor_id)
                * CompradoUnaVez(consulta[1].df_pedidos,
                                 t.point_of_sale_id, t.vendor_id)

====
